---------------------------- MODULE Spec2Model ----------------------------
(***************************************************************************)
(* A model of egui's Context / CtxRef (src/egui/src/context.rs): the       *)
(* Rc<RefCell<Context>> cell and its runtime borrow flag, the frame        *)
(* lifecycle (run = begin_frame_mut ; run_ui ; end_frame), the repaint     *)
(* counter, and the interaction resolver (interact / interact_with_hovered *)
(* / register_interaction_id).                                             *)
(*                                                                         *)
(* Lengths are in tenths of a point (gap 0.5 = 5, expand(0.1) = 1),        *)
(* pixels_per_point in ten-thousandths (1.0 = 10000, 1e-3 = 10).           *)
(* Option<T> is  "None"  for ids and names, <<>> for positions.            *)
(***************************************************************************)
EXTENDS Integers, Sequences, FiniteSets, TLC

(* ------------------------------ bounds --------------------------------- *)

\* run calls whose run_ui closure is executing at the same time
MaxDepth == 1

\* run calls in progress at once where run is called from inside run_ui
MaxNesting == 2
\* Ref guards (input(), fonts()) the caller keeps alive at the same time
MaxGuards == 1
\* raw pointer-button events in one frame's RawInput
MaxEvents == 2
\* the ghost frame counters stop counting here
MaxCount == 3
\* interact is not called once a frame has painted this many shapes
MaxShapes == 2

(* --------------------------- program constants ------------------------- *)

\* repaint_requests of a fresh CtxRef
DefaultRepaintRequests == 1
\* what request_repaint stores
\* a request that asks for no more frames than the seed does
SingleRepaintFrame == DefaultRepaintRequests

RepaintFrames == 2
\* interact: gap, in tenths of a point
Gap == 5
\* interact: the largest expansion of the hit rectangle, in tenths
MaxExpand == 50
\* register_interaction_id: expand(0.1), in tenths
ReuseSlack == 1
\* register_interaction_id: distance(..) < 4.0, in tenths
DoubleUseDist == 40
\* update_fonts_mut: 1e-3, in ten-thousandths
PppEps == 10

(* ------------------------------ geometry ------------------------------- *)

NoPos == <<>>

Pos(x, y) == <<x, y>>

Rect(x0, y0, x1, y1) == [min |-> <<x0, y0>>, max |-> <<x1, y1>>]

Max2(a, b) == IF a >= b THEN a ELSE b

Min2(a, b) == IF a <= b THEN a ELSE b

\* emath::Rect::contains: both bounds inclusive
RectContains(r, p) ==
    /\ r.min[1] <= p[1] /\ p[1] <= r.max[1]
    /\ r.min[2] <= p[2] /\ p[2] <= r.max[2]

\* emath::Rect::contains_rect
RectContainsRect(r, o) == RectContains(r, o.min) /\ RectContains(r, o.max)

\* emath::Rect::expand2
RectExpand2(r, ex, ey) ==
    [min |-> <<r.min[1] - ex, r.min[2] - ey>>, max |-> <<r.max[1] + ex, r.max[2] + ey>>]

\* emath::Rect::expand
RectExpand(r, e) == RectExpand2(r, e, e)

\* emath::Rect::intersect
RectIntersect(a, b) ==
    [min |-> <<Max2(a.min[1], b.min[1]), Max2(a.min[2], b.min[2])>>,
     max |-> <<Min2(a.max[1], b.max[1]), Min2(a.max[2], b.max[2])>>]

\* a.intersect(b) is a rectangle of positive area or a shared edge/point
RectsOverlap(a, b) ==
    LET i == RectIntersect(a, b) IN i.min[1] <= i.max[1] /\ i.min[2] <= i.max[2]

\* emath::Pos2::distance(a, b) < d, squared to stay in the integers
DistanceLess(a, b, d) ==
    (a[1] - b[1]) * (a[1] - b[1]) + (a[2] - b[2]) * (a[2] - b[2]) < d * d

(* ------------------------- the RefCell borrow flag --------------------- *)
(* core::cell::RefCell: 0 unused, n > 0 shared borrows, -1 one mutable.    *)

CanBorrow(b) == b >= 0

CanBorrowMut(b) == b = 0

AcquireRef(b) == b + 1

ReleaseRef(b) == b - 1

AcquireMut(b) == b - 1

ReleaseMut(b) == b + 1


(* ------------------------------ the domain ----------------------------- *)

None == "None"

\* Ids of widgets; "W" is the Id window.rs uses for a window's chrome
WidgetIds == {"A", "B"}

WindowId == "W"

\* PointerButton
Buttons == {"Primary", "Secondary"}

Keys == {"Space", "Enter"}

\* LayerId: Order::Background, a window (Order::Middle), Order::Tooltip, Order::Debug
Layers == {"Background", "Window", "Tooltip", "Debug"}

\* LayerId::allow_interaction
AllowInteraction(layer) == layer \in {"Background", "Window"}

\* Sense::hover, focusable_noninteractive, click, drag, click_and_drag
Senses ==
    { [click |-> FALSE, drag |-> FALSE, focusable |-> FALSE],
      [click |-> FALSE, drag |-> FALSE, focusable |-> TRUE],
      [click |-> TRUE,  drag |-> FALSE, focusable |-> TRUE],
      [click |-> FALSE, drag |-> TRUE,  focusable |-> TRUE],
      [click |-> TRUE,  drag |-> TRUE,  focusable |-> TRUE] }

\* Sense::interactive
SenseInteractive(sense) == sense.click \/ sense.drag

ScreenRect == Rect(0, 0, 8000, 6000)

\* the area of the window layer
WindowRect == Rect(600, 150, 5000, 5000)

\* widget rectangles: RectA and RectB overlap, neither holds the other;
\* RectInA lies inside RectA; RectC is far from them
RectA == Rect(100, 100, 1000, 400)

RectB == Rect(600, 200, 1500, 600)

RectInA == Rect(200, 200, 900, 350)

RectC == Rect(3000, 3000, 3500, 3200)

WidgetRects == {RectA, RectB, RectInA, RectC}

\* clip rectangles handed to interact
ClipRects == {ScreenRect, Rect(0, 0, 700, 6000)}

\* Spacing::item_spacing values handed to interact (both axes), in tenths
ItemSpacings == {0, 80}

\* pointer positions: in RectA outside the window, in RectA and RectB inside
\* the window, in RectC
PosA == Pos(500, 250)

PosAB == Pos(800, 300)

PosC == Pos(3100, 3100)

Positions == {PosA, PosAB, PosC}

\* FontDefinitions values
FontDefs == {"default", "custom"}

\* size of the laid-out text of Painter::error, and the frame it adds
ErrorTextSize == <<2000, 140>>

ErrorFrame == 20

(* ------------------------------ the state ------------------------------ *)

VARIABLES
    depth,            \* run calls whose run_ui closure is executing
    borrow,           \* the RefCell's borrow flag
    guards,           \* Ref / RefMut guards the caller keeps alive
    panic,            \* "none", or the panic that ended the program
    lastOp,           \* the operation the last step performed
    repaint_requests, \* Context::repaint_requests
    fonts,            \* Context::fonts
    memory,           \* Context::memory
    input,            \* Context::input
    used_ids,         \* Context::frame_state.used_ids
    graphics,         \* Context::graphics, the shapes painted this frame
    output,           \* Context::output, what the frame has put out so far
    out,              \* the Output the last end_frame returned, and how many shapes
    trig,             \* history: end_frames since the last repaint trigger
    frames,           \* history: end_frames completed before any trigger
    frame_click,      \* history: memory.interaction.click_id when the frame began
    asked,            \* history: what set_pixels_per_point / set_fonts last asked for
    outside_press,    \* history: a button went down and nothing claimed the press
    handles,          \* the CtxRef handles, and the Context each refers to
    old_ctx           \* a Context that only handles of an earlier generation refer to

vars == <<depth, borrow, guards, panic, lastOp, repaint_requests, fonts, memory,
          input, used_ids, graphics, output, out, trig, frames, frame_click,
          asked, outside_press, handles, old_ctx>>

ctxVars == <<repaint_requests, fonts, memory, input, used_ids, graphics, output>>

obsVars == <<out, trig, frames, frame_click, asked>>

rcVars == <<handles, old_ctx>>

Never == 0 - 1

\* the operation a step performed, the Id an interact was called with, and
\* the value the operation returned where the model keeps it
Op(name) == [op |-> name, id |-> None, ret |-> None]

\* PointerEvent::Moved / Pressed / Released(Option<Click>)
EvMoved == [kind |-> "Moved", has_click |-> FALSE, button |-> "Primary", double |-> FALSE]

EvPressed == [kind |-> "Pressed", has_click |-> FALSE, button |-> "Primary", double |-> FALSE]

EvReleased(has_click, button, double) ==
    [kind |-> "Released", has_click |-> has_click,
     button |-> IF has_click THEN button ELSE "Primary",
     double |-> has_click /\ double]

\* InputState::default
DefaultInput ==
    [pointer_events |-> <<>>, latest_pos |-> NoPos, interact_pos |-> NoPos,
     down |-> {}, could_click |-> FALSE, delta |-> FALSE, keys |-> {},
     pixels_per_point |-> 10000]

\* Memory::default
DefaultMemory ==
    [click_id |-> None, drag_id |-> None, drag_is_window |-> FALSE,
     window_interaction |-> FALSE, click_interest |-> FALSE, drag_interest |-> FALSE,
     focus |-> None, focus_interest |-> {}, areas |-> {},
     new_pixels_per_point |-> 0, new_font_definitions |-> None,
     screen_reader |-> FALSE]

NoFonts == [present |-> FALSE, pixels_per_point |-> 0, definitions |-> None, generation |-> 0]

\* nothing asked for since the last frame began
NothingAsked == [ppp |-> "none", fonts |-> None]

\* the handles of the program: the CtxRef that CtxRef::default returned, and a
\* clone of it; a handle refers to the Context of the Rc ("live"), to a Context
\* of an earlier generation ("old"), or does not exist yet (None)
Handles == {"ctx", "clone"}

\* Output::default
DefaultOutput == [needs_repaint |-> FALSE, copied_text |-> None]

\* what end_frame returns for a frame that put out and painted nothing: the
\* fields of the Output, and the number of shapes
NothingReturned == [needs_repaint |-> FALSE, copied_text |-> None, shapes |-> 0]

\* CtxRef::default
Init ==
    /\ depth = 0
    /\ borrow = 0
    /\ guards = [ref |-> 0, mut |-> 0]
    /\ panic = "none"
    /\ lastOp = Op("new")
    /\ repaint_requests = DefaultRepaintRequests
    /\ fonts = NoFonts
    /\ memory = DefaultMemory
    /\ input = DefaultInput
    /\ used_ids = [i \in WidgetIds |-> <<>>]
    /\ graphics = <<>>
    /\ output = DefaultOutput
    /\ out = NothingReturned
    /\ trig = [since |-> Never, calls |-> 0]
    /\ frames = 0
    /\ frame_click = None
    /\ asked = NothingAsked
    /\ outside_press = "no"
    /\ handles = [h \in Handles |-> IF h = "ctx" THEN "live" ELSE None]
    /\ old_ctx = None

(* ------------------------------ begin_frame ---------------------------- *)

Abs(x) == IF x < 0 THEN 0 - x ELSE x

\* PointerState::could_any_button_be_click
CouldAnyButtonBeClick(inp) == inp.could_click

\* PointerState::any_down
AnyDown(inp) == inp.down # {}

\* InputState::wants_repaint: pointer events, pointer motion or other events
WantsRepaint(inp) == inp.pointer_events # <<>> \/ inp.delta \/ inp.keys # {}

\* the raw pointer-button events of a frame, applied in order to
\* p = [events, down, could_click]  (PointerState::begin_frame, Event::PointerButton)
RECURSIVE ApplyButtons(_, _)
ApplyButtons(p, evs) ==
    IF evs = <<>> THEN p
    ELSE LET e == Head(evs)
             q == IF e.pressed
                  THEN [events |-> Append(p.events, EvPressed),
                        down |-> p.down \cup {e.button},
                        could_click |-> TRUE]
                  ELSE [events |-> Append(p.events,
                                          EvReleased(p.could_click, e.button, e.double)),
                        down |-> p.down \ {e.button},
                        could_click |-> FALSE]
         IN ApplyButtons(q, Tail(evs))

\* InputState::begin_frame(raw): one-shot lists cleared, pointer state carried over
InputBeginFrame(inp, raw) ==
    LET moved == raw.pos # NoPos
        pos1 == IF moved THEN raw.pos ELSE inp.latest_pos
        \* a press that is too old, or that moved too far, is no click any more
        cc1 == inp.could_click /\ ~raw.expired /\ ~(moved /\ raw.pos # inp.latest_pos)
        p0 == [events |-> IF moved THEN <<EvMoved>> ELSE <<>>,
               down |-> inp.down, could_click |-> cc1]
        p1 == ApplyButtons(p0, raw.buttons)
        latest == IF raw.gone THEN NoPos ELSE pos1
    IN [pointer_events |-> p1.events,
        latest_pos |-> latest,
        interact_pos |-> pos1,
        down |-> p1.down,
        could_click |-> p1.could_click,
        delta |-> inp.latest_pos # NoPos /\ latest # NoPos /\ inp.latest_pos # latest,
        keys |-> raw.keys,
        pixels_per_point |-> IF raw.pixels_per_point # 0 THEN raw.pixels_per_point
                             ELSE inp.pixels_per_point]

\* Memory::begin_frame(prev_input, new_input): stale claims are dropped
MemoryBeginFrame(mem, prev) ==
    LET gone == ~AnyDown(prev) \/ prev.latest_pos = NoPos
    IN [mem EXCEPT
          !.click_interest = FALSE,
          !.drag_interest = FALSE,
          !.click_id = IF ~CouldAnyButtonBeClick(prev) \/ gone THEN None ELSE @,
          !.drag_id = IF gone THEN None ELSE @,
          !.window_interaction = IF ~AnyDown(prev) THEN FALSE ELSE @,
          !.focus_interest = {}]

\* a begin_frame that keeps the registry of the frame before
frame_state_begin_frame_kept(used) == used

\* FrameState::begin_frame, called at line 567: no Id is registered
FrameStateBeginFrame(used) == [i \in WidgetIds |-> <<>>]

\* Fonts::new(pixels_per_point, definitions): a new cache object; generation
\* tells it from the cache it replaces
FontsNew(ppp, defs, old) ==
    [present |-> TRUE, pixels_per_point |-> ppp, definitions |-> defs,
     generation |-> (old.generation + 1) % (MaxCount + 1)]

\* update_fonts_mut that builds a cache only when something asks for one
update_fonts_mut_lazy(fnt, new_font_definitions, pixels_per_point) ==
    IF new_font_definitions # None
       \/ (fnt.present /\ Abs(fnt.pixels_per_point - pixels_per_point) > PppEps)
    THEN FontsNew(pixels_per_point,
                  IF new_font_definitions # None THEN new_font_definitions
                  ELSE fnt.definitions,
                  fnt)
    ELSE fnt

\* update_fonts_mut that falls back to the default definitions on a rebuild
update_fonts_mut_defaults(fnt, new_font_definitions, pixels_per_point) ==
    IF ~fnt.present \/ new_font_definitions # None
       \/ Abs(fnt.pixels_per_point - pixels_per_point) > PppEps
    THEN FontsNew(pixels_per_point,
                  IF new_font_definitions # None THEN new_font_definitions ELSE "default",
                  fnt)
    ELSE fnt

\* Context::update_fonts_mut: the font cache after the call
update_fonts_mut(fnt, new_font_definitions, pixels_per_point) ==
    LET pixels_per_point_changed ==
            IF ~fnt.present THEN TRUE
            ELSE Abs(fnt.pixels_per_point - pixels_per_point) > PppEps
    IN IF ~fnt.present \/ new_font_definitions # None \/ pixels_per_point_changed
       THEN FontsNew(pixels_per_point,
                     IF new_font_definitions # None THEN new_font_definitions
                     ELSE IF fnt.present THEN fnt.definitions ELSE "default",
                     fnt)
       ELSE fnt

\* begin_frame_mut that leaves memory.new_pixels_per_point unapplied
take_new_pixels_per_point_dropped(inp, new_pixels_per_point) == inp

\* begin_frame_mut, lines 562-564: the pending pixels_per_point replaces the input's
take_new_pixels_per_point(inp, new_pixels_per_point) ==
    IF new_pixels_per_point # 0
    THEN [inp EXCEPT !.pixels_per_point = new_pixels_per_point]
    ELSE inp

\* Context::begin_frame_mut: the Context after the call
begin_frame_mut(c, raw) ==
    LET mem1 == MemoryBeginFrame(c.memory, c.input)
        inp0 == take_new_pixels_per_point(c.input, mem1.new_pixels_per_point)
        inp1 == InputBeginFrame(inp0, raw)
        fnt1 == update_fonts_mut(c.fonts, mem1.new_font_definitions, inp1.pixels_per_point)
    IN [c EXCEPT
          !.memory = [mem1 EXCEPT !.new_pixels_per_point = 0,
                                  !.new_font_definitions = None,
                                  !.areas = @ \cup {"Background"}],
          !.input = inp1,
          !.used_ids = FrameStateBeginFrame(c.used_ids),
          !.fonts = fnt1]

\* the Context as one value
Ctx ==
    [repaint_requests |-> repaint_requests, fonts |-> fonts, memory |-> memory,
     input |-> input, used_ids |-> used_ids, graphics |-> graphics,
     output |-> output]

\* store a Context value
SetCtx(c) ==
    /\ repaint_requests' = c.repaint_requests
    /\ fonts' = c.fonts
    /\ memory' = c.memory
    /\ input' = c.input
    /\ used_ids' = c.used_ids
    /\ graphics' = c.graphics
    /\ output' = c.output

\* a failed borrow unwinds: the program ends at `site`
Panic(site, op) ==
    /\ panic' = site
    /\ lastOp' = Op(op)
    /\ UNCHANGED <<depth, borrow, guards>>

\* run that keeps the RefMut of line 91 alive while run_ui executes
run_begin_borrow_kept(b) == AcquireMut(b)

\* the borrow flag when line 91 of run has completed: the RefMut is a
\* temporary of the statement
run_begin_borrow(b) == ReleaseMut(AcquireMut(b))

\* raw inputs of a frame: the pointer moves to pos (or does not move), then the
\* button events arrive, then the pointer may leave
RawInputs(maxEvents, poss, buttons, flags, keysets) ==
    { [pos |-> p, buttons |-> bs, gone |-> g, expired |-> x, keys |-> k,
       pixels_per_point |-> 0] :
        p \in poss \cup {NoPos},
        bs \in UNION { [1..n -> [button : buttons, pressed : BOOLEAN, double : flags]] :
                         n \in 0..maxEvents },
        g \in flags, x \in flags, k \in keysets }

\* run that moves the handle it is called on to a new generation of Context
\* and leaves the other handles with the old one
run_handles_new_generation(hs, h) ==
    [x \in Handles |-> IF x = h \/ hs[x] = None THEN hs[x] ELSE "old"]

\* what the handles refer to after run was called on handle h: run takes
\* &self and works on the Context behind self.0, which it does not replace
run_handles(hs, h) == hs

\* history of the buttons that are down: "open" in the frame of a press that
\* found no button down, "yes" once that frame ended with no click or drag
\* claim, "again" when a further button was pressed since, "no" otherwise and
\* from the frame on in which a button is released
OutsidePressBeginFrame(o, prev, inp) ==
    LET pressed == \E i \in 1..Len(inp.pointer_events) : inp.pointer_events[i].kind = "Pressed"
        released == \E i \in 1..Len(inp.pointer_events) : inp.pointer_events[i].kind = "Released"
    IN IF released \/ inp.down = {} THEN "no"
       ELSE IF pressed /\ prev.down = {} THEN "open"
       ELSE IF pressed /\ o \in {"yes", "again"} THEN "again"
       ELSE o

\* the frame of the press has ended: did anything claim it
OutsidePressEndFrame(o, mem) ==
    IF o # "open" THEN o
    ELSE IF mem.click_id = None /\ mem.drag_id = None THEN "yes" ELSE "no"

\* the frame that begins takes up what was asked for
AskedBeginFrame(a) == [ppp |-> IF a.ppp = "pending" THEN "applied" ELSE a.ppp, fonts |-> None]

\* the frame that ends has served what it took up
AskedEndFrame(a) == [a EXCEPT !.ppp = IF @ = "applied" THEN "none" ELSE @]

\* CtxRef::run, up to the call of run_ui, with at most `limit` runs in progress
RunBeginWithin(raw, limit) ==
    /\ panic = "none"
    /\ depth < limit
    \* a button event carries the pointer's position
    /\ raw.buttons = <<>> \/ raw.pos # NoPos \/ input.latest_pos # NoPos
    /\ IF CanBorrowMut(borrow)
       THEN /\ SetCtx(begin_frame_mut(Ctx, raw))
            /\ frame_click' = begin_frame_mut(Ctx, raw).memory.click_id
            /\ asked' = AskedBeginFrame(asked)
            /\ outside_press' = OutsidePressBeginFrame(outside_press, input,
                                     begin_frame_mut(Ctx, raw).input)
            /\ \E h \in Handles :
                 /\ handles[h] = "live"
                 /\ handles' = run_handles(handles, h)
            /\ old_ctx' = IF handles' = handles THEN old_ctx ELSE Ctx
            /\ borrow' = run_begin_borrow(borrow)
            /\ depth' = depth + 1
            /\ lastOp' = Op("run_begin")
            /\ UNCHANGED <<guards, panic>>
       ELSE /\ Panic("run: already borrowed", "run_begin")
            /\ UNCHANGED ctxVars
            /\ UNCHANGED <<frame_click, asked, outside_press>>
            /\ UNCHANGED rcVars
    /\ UNCHANGED <<out, trig, frames>>

\* CtxRef::run, up to the call of run_ui
RunBegin(raw) == RunBeginWithin(raw, MaxDepth)

(* ---------------------- request_repaint and end_frame ------------------- *)

Capped(n) == IF n >= MaxCount THEN MaxCount ELSE n

\* history: a repaint trigger fired (request_repaint ran); `explicit` when a
\* caller of the handle asked for it
Triggered(t, explicit) ==
    [since |-> 0,
     calls |-> IF ~explicit THEN 0
               ELSE IF t.since = 0 THEN Capped(t.calls + 1) ELSE 1]

\* history: an end_frame completed
FrameEnded(t) == [t EXCEPT !.since = IF @ = Never THEN Never ELSE Capped(@ + 1)]

\* request_repaint that leaks its RefMut
request_repaint_borrow_kept(b) == AcquireMut(b)

\* the borrow flag when request_repaint has returned
request_repaint_borrow(b) == ReleaseMut(AcquireMut(b))

\* CtxRef::request_repaint
RequestRepaint ==
    /\ panic = "none"
    /\ IF CanBorrowMut(borrow)
       THEN /\ repaint_requests' = RepaintFrames
            /\ borrow' = request_repaint_borrow(borrow)
            /\ trig' = Triggered(trig, TRUE)
            /\ lastOp' = Op("request_repaint")
            /\ UNCHANGED <<depth, guards, panic>>
       ELSE /\ Panic("request_repaint: already borrowed", "request_repaint")
            /\ UNCHANGED <<repaint_requests, trig>>
    /\ frames' = IF CanBorrowMut(borrow) THEN 0 ELSE frames
    /\ UNCHANGED <<fonts, memory, input, used_ids, graphics, out, frame_click, asked>>
    /\ UNCHANGED rcVars
    /\ UNCHANGED <<outside_press, output>>

\* Memory::end_frame(input, used_ids): focus is lost with the widget that held it
MemoryEndFrame(mem, used) ==
    [mem EXCEPT !.focus = IF @ # None /\ @ \in WidgetIds /\ used[@] = <<>> THEN None ELSE @]

\* end_frame without the decrement of line 628
end_frame_repaint_keep(r) == [requests |-> r, needs_repaint |-> r > 0]

\* end_frame that decrements before it tests, so that one request is one repaint
end_frame_repaint_once(r) ==
    [requests |-> IF r > 0 THEN r - 1 ELSE r, needs_repaint |-> r > 1]

\* end_frame that decrements the counter without the test of line 627
end_frame_repaint_unguarded(r) == [requests |-> r - 1, needs_repaint |-> r > 0]

\* end_frame, lines 627-630: the counter after the frame and Output.needs_repaint
end_frame_repaint(r) ==
    [requests |-> IF r > 0 THEN r - 1 ELSE r, needs_repaint |-> r > 0]

\* the borrow flag when end_frame has returned
end_frame_borrow(b) == ReleaseMut(AcquireMut(b))

\* end_frame, line 626: std::mem::take leaves Output::default in the Context
end_frame_take(acc) == DefaultOutput

\* drain_paint_lists, lines 636-642: the layers after GraphicLayers::drain
drain_paint_lists(g) == <<>>

\* end_frame, lines 626-633: the Output taken from the Context, needs_repaint
\* set when the counter was positive, and the number of shapes drained from
\* the layers
end_frame_output(acc, needs_repaint, g) ==
    [needs_repaint |-> acc.needs_repaint \/ needs_repaint,
     copied_text |-> acc.copied_text,
     shapes |-> Len(g)]

\* CtxRef::end_frame, the second half of run
RunEnd ==
    /\ panic = "none"
    /\ depth > 0
    /\ IF CanBorrowMut(borrow)
       THEN LET wants == WantsRepaint(input)
                r == end_frame_repaint(IF wants THEN RepaintFrames ELSE repaint_requests)
            IN /\ repaint_requests' = r.requests
               /\ out' = end_frame_output(output, r.needs_repaint, graphics)
               /\ output' = end_frame_take(output)
               /\ memory' = MemoryEndFrame(memory, used_ids)
               /\ graphics' = drain_paint_lists(graphics)
               /\ trig' = FrameEnded(IF wants THEN Triggered(trig, FALSE) ELSE trig)
               /\ frames' = IF wants \/ trig.since # Never THEN 0 ELSE Capped(frames + 1)
               /\ asked' = AskedEndFrame(asked)
               /\ outside_press' = OutsidePressEndFrame(outside_press, memory)
               /\ borrow' = end_frame_borrow(borrow)
               /\ depth' = depth - 1
               /\ lastOp' = Op("end_frame")
               /\ UNCHANGED <<guards, panic>>
       ELSE /\ Panic("end_frame: already borrowed", "end_frame")
            /\ UNCHANGED <<repaint_requests, out, memory, graphics, output, trig,
                           frames, asked, outside_press>>
    /\ UNCHANGED <<fonts, input, used_ids, frame_click>>
    /\ UNCHANGED rcVars

(* ------------------------ register_interaction_id ---------------------- *)

\* Painter::error(pos, text): the rectangle of the overlay it paints
PainterErrorRect(pos) ==
    RectExpand(Rect(pos[1], pos[2], pos[1] + ErrorTextSize[1], pos[2] + ErrorTextSize[2]),
               ErrorFrame)

\* the shape Painter::error adds to the debug layer
ErrorShape(pos, text) ==
    [layer |-> "Debug", rect |-> PainterErrorRect(pos), text |-> text]

\* register_interaction_id, line 114: the borrow flag while the body of
\* `if let Some(pointer_pos) = self.borrow().input.pointer.hover_pos()` runs:
\* the Ref is a temporary of the scrutinee and lives to the end of the if-let
show_error_body_borrow(b) == AcquireRef(b)

\* CtxRef::graphics (borrow_mut) as Painter::error reaches it: can it borrow?
GraphicsCanBorrow(b) == CanBorrowMut(b)

\* the closure show_error of register_interaction_id, on st = [graphics, panic]
show_error(st, b, hover_pos, pos, text) ==
    IF st.panic # "none" THEN st
    ELSE LET g1 == Append(st.graphics, ErrorShape(pos, text))
             rect == PainterErrorRect(pos)
         IN IF hover_pos # NoPos /\ RectContains(rect, hover_pos)
            THEN IF GraphicsCanBorrow(show_error_body_borrow(b))
                 THEN [graphics |-> Append(g1, ErrorShape(<<rect.min[1] + 20,
                                                            rect.max[2] + 40>>, "ID clashes")),
                       panic |-> "none"]
                 ELSE [graphics |-> g1,
                       panic |-> "show_error: already borrowed: BorrowMutError"]
            ELSE [graphics |-> g1, panic |-> "none"]

\* the test of line 105 left out: every second use of an Id is reported
reuse_ok_never(prev_rect, new_rect) == FALSE

\* the test of line 105 as an overlap test
reuse_ok_overlap(prev_rect, new_rect) == RectsOverlap(prev_rect, new_rect)

\* line 105: is re-using the Id with these two rectangles accepted?
reuse_ok(prev_rect, new_rect) ==
    \/ RectContainsRect(RectExpand(prev_rect, ReuseSlack), new_rect)
    \/ RectContainsRect(RectExpand(new_rect, ReuseSlack), prev_rect)

\* CtxRef::register_interaction_id: [used_ids, graphics, panic] after the call
register_interaction_id(used, gfx, b, hover_pos, id, new_rect) ==
    LET prev == used[id]
        used1 == [used EXCEPT ![id] = <<new_rect>>]
        st0 == [graphics |-> gfx, panic |-> "none"]
    IN IF prev = <<>> \/ reuse_ok(prev[1], new_rect)
       THEN [used_ids |-> used1, graphics |-> gfx, panic |-> "none"]
       ELSE LET prev_rect == prev[1]
                st1 == IF DistanceLess(prev_rect.min, new_rect.min, DoubleUseDist)
                       THEN show_error(st0, b, hover_pos, new_rect.min, "Double use of ID")
                       ELSE show_error(
                                show_error(st0, b, hover_pos, prev_rect.min, "First use of ID"),
                                b, hover_pos, new_rect.min, "Second use of ID")
            IN [used_ids |-> used1, graphics |-> st1.graphics, panic |-> st1.panic]

(* ------------------------------- interact ------------------------------ *)

\* Memory::layer_id_at: the topmost interactable area that holds pos
LayerIdAt(mem, pos) ==
    IF "Window" \in mem.areas /\ RectContains(WindowRect, pos) THEN "Window"
    ELSE IF "Background" \in mem.areas /\ RectContains(ScreenRect, pos) THEN "Background"
    ELSE None

\* rect_contains_pointer without the layer test of line 739
rect_contains_pointer_any_layer(mem, inp, layer_id, rect) ==
    inp.interact_pos # NoPos /\ RectContains(rect, inp.interact_pos)

\* CtxRef::rect_contains_pointer
rect_contains_pointer(mem, inp, layer_id, rect) ==
    LET pointer_pos == inp.interact_pos
    IN IF pointer_pos # NoPos
       THEN RectContains(rect, pointer_pos) /\ LayerIdAt(mem, pointer_pos) = layer_id
       ELSE FALSE

\* interact, lines 153-157: the hit rectangle
interact_rect(rect, item_spacing) ==
    LET e == Min2(Max2((item_spacing \div 2) - Gap, 0), MaxExpand)
    IN RectExpand2(rect, e, e)

\* surrender_focus that leaves the focus where it is
surrender_focus_kept(mem, id) == mem

\* Memory::surrender_focus
SurrenderFocus(mem, id) == [mem EXCEPT !.focus = IF @ = id THEN None ELSE @]

\* PointerState::any_click
AnyClick(inp) ==
    \E i \in 1..Len(inp.pointer_events) :
        inp.pointer_events[i].kind = "Released" /\ inp.pointer_events[i].has_click

\* Response::clicked_elsewhere
ClickedElsewhere(inp, resp) ==
    IF AnyClick(inp)
    THEN IF resp.hovered THEN FALSE
         ELSE IF inp.interact_pos # NoPos THEN ~RectContains(resp.rect, inp.interact_pos)
         ELSE FALSE
    ELSE FALSE

\* the test of line 232 left out: every hovered press takes the click claim
click_claimable_always(mem) == TRUE

\* the test of line 232 inverted
click_claimable_inverted(mem) == mem.click_id # None

\* line 232: may this id take the click claim?
click_claimable(mem) == mem.click_id = None

\* lines 244-245 without the window exception
drag_claimable_unclaimed(mem) == mem.drag_id = None

\* lines 244-245: may this id take the drag claim?
drag_claimable(mem) == mem.drag_id = None \/ mem.drag_is_window

\* lines 256-267: the arm PointerEvent::Released(click)
pointer_released(resp, ev, hovered) ==
    LET r1 == [resp EXCEPT !.drag_released = resp.dragged, !.dragged = FALSE]
    IN IF hovered /\ r1.is_pointer_button_down_on /\ ev.has_click
       THEN LET clicked == hovered /\ r1.is_pointer_button_down_on
            IN [r1 EXCEPT !.clicked[ev.button] = clicked,
                          !.double_clicked[ev.button] = clicked /\ ev.double]
       ELSE r1

\* lines 230-255: the arm PointerEvent::Pressed, on st = [mem, resp]
pointer_pressed(st, id, sense, hovered) ==
    IF ~hovered THEN st
    ELSE LET c == sense.click /\ click_claimable(st.mem)
             m1 == IF c THEN [st.mem EXCEPT !.click_id = id] ELSE st.mem
             r1 == IF c THEN [st.resp EXCEPT !.is_pointer_button_down_on = TRUE]
                   ELSE st.resp
             d == sense.drag /\ drag_claimable(m1)
         IN IF d
            THEN [mem |-> [m1 EXCEPT !.drag_id = id, !.drag_is_window = FALSE,
                                     !.window_interaction = FALSE],
                  resp |-> [r1 EXCEPT !.is_pointer_button_down_on = TRUE,
                                      !.dragged = TRUE]]
            ELSE [mem |-> m1, resp |-> r1]

\* lines 227-270: the loop over input.pointer.pointer_events
RECURSIVE pointer_loop(_, _, _, _, _)
pointer_loop(st, evs, id, sense, hovered) ==
    IF evs = <<>> THEN st
    ELSE LET ev == Head(evs)
             st1 == IF ev.kind = "Pressed" THEN pointer_pressed(st, id, sense, hovered)
                    ELSE IF ev.kind = "Released"
                    THEN [st EXCEPT !.resp = pointer_released(st.resp, ev, hovered)]
                    ELSE st
         IN pointer_loop(st1, Tail(evs), id, sense, hovered)

\* lines 174-189: the Response as first built
NewResponse(layer_id, id, rect, sense, enabled, hovered) ==
    [layer_id |-> layer_id, id |-> id, rect |-> rect, sense |-> sense,
     enabled |-> enabled, hovered |-> hovered,
     clicked |-> [b \in Buttons |-> FALSE], double_clicked |-> [b \in Buttons |-> FALSE],
     dragged |-> FALSE, drag_released |-> FALSE, is_pointer_button_down_on |-> FALSE,
     interact_pointer_pos |-> NoPos]

\* lines 277-279 left out: hover is reported whoever owns the pointer
hover_while_down_kept(resp, any_down) == resp

\* lines 277-279: no hover while the pointer interacts with another widget
hover_while_down(resp, any_down) ==
    IF any_down
    THEN [resp EXCEPT !.hovered = @ /\ resp.is_pointer_button_down_on]
    ELSE resp

\* the test of lines 211-214 without has_focus: the keys click every widget
key_click_unfocused(sense, has_focus, keys) ==
    sense.click /\ ("Space" \in keys \/ "Enter" \in keys)

\* lines 211-214: do Space or Enter click the widget?
key_click(sense, has_focus, keys) ==
    sense.click /\ has_focus /\ ("Space" \in keys \/ "Enter" \in keys)

\* interact_with_hovered, lines 199-285: [mem, resp] once the Id is registered
interact_resolve(mem, inp, resp0, id, sense, hovered) ==
    LET clicked_elsewhere == ClickedElsewhere(inp, resp0)
        interested_in_focus ==
            SenseInteractive(sense) \/ (sense.focusable /\ mem.screen_reader)
        m1 == IF interested_in_focus
              THEN [mem EXCEPT !.focus_interest = @ \cup {id}] ELSE mem
        r1 == IF key_click(sense, m1.focus = id, inp.keys)
              THEN [resp0 EXCEPT !.clicked["Primary"] = TRUE] ELSE resp0
        st2 == IF sense.click \/ sense.drag
               THEN LET m2 == [m1 EXCEPT
                                 !.click_interest = @ \/ (hovered /\ sense.click),
                                 !.drag_interest = @ \/ (hovered /\ sense.drag)]
                        dragged == m2.drag_id = id
                        r2 == [r1 EXCEPT
                                 !.dragged = dragged,
                                 !.is_pointer_button_down_on = (m2.click_id = id \/ dragged)]
                    IN pointer_loop([mem |-> m2, resp |-> r2], inp.pointer_events,
                                    id, sense, hovered)
               ELSE [mem |-> m1, resp |-> r1]
        r3 == IF st2.resp.is_pointer_button_down_on
              THEN [st2.resp EXCEPT !.interact_pointer_pos = inp.interact_pos]
              ELSE st2.resp
        r4 == hover_while_down(r3, AnyDown(inp))
        m4 == IF st2.mem.focus = id /\ clicked_elsewhere
              THEN SurrenderFocus(st2.mem, id) ELSE st2.mem
    IN [mem |-> m4, resp |-> r4]

\* CtxRef::interact, with interact_with_hovered and register_interaction_id, on
\* the Context c with borrow flag b: the Context's parts after the call, the
\* Response it returns, `hovered` as handed to the event loop, whether it
\* returned at line 194, and the panic that ended it
interact(c, b, clip_rect, item_spacing, layer_id, id, rect, sense, enabled) ==
    LET hovered0 == rect_contains_pointer(c.memory, c.input, layer_id,
                        RectIntersect(clip_rect, interact_rect(rect, item_spacing)))
        hovered == hovered0 /\ enabled
        resp0 == NewResponse(layer_id, id, rect, sense, enabled, hovered)
    IN IF ~enabled \/ ~sense.focusable \/ ~AllowInteraction(layer_id)
       THEN [memory |-> SurrenderFocus(c.memory, id), used_ids |-> c.used_ids,
             graphics |-> c.graphics, response |-> resp0, hovered |-> hovered,
             early |-> TRUE, panic |-> "none"]
       ELSE LET reg == register_interaction_id(c.used_ids, c.graphics, b,
                                               c.input.latest_pos, id, rect)
                res == interact_resolve(c.memory, c.input, resp0, id, sense, hovered)
            IN IF reg.panic # "none"
               THEN [memory |-> c.memory, used_ids |-> reg.used_ids,
                     graphics |-> reg.graphics, response |-> resp0, hovered |-> hovered,
                     early |-> FALSE, panic |-> reg.panic]
               ELSE [memory |-> res.mem, used_ids |-> reg.used_ids,
                     graphics |-> reg.graphics, response |-> res.resp,
                     hovered |-> hovered, early |-> FALSE, panic |-> "none"]

\* the borrow flag when interact has returned
interact_borrow(b) == ReleaseMut(AcquireMut(b))

\* a widget calls CtxRef::interact
Interact(clip_rect, item_spacing, layer_id, id, rect, sense, enabled) ==
    /\ panic = "none"
    /\ Len(graphics) < MaxShapes
    /\ IF ~CanBorrowMut(borrow)
       THEN /\ Panic("interact: already borrowed", "interact")
            /\ UNCHANGED <<memory, used_ids, graphics>>
       ELSE LET res == interact(Ctx, borrow, clip_rect, item_spacing, layer_id, id,
                                rect, sense, enabled)
            IN /\ memory' = res.memory
               /\ used_ids' = res.used_ids
               /\ graphics' = res.graphics
               /\ IF res.panic # "none"
                  THEN Panic(res.panic, "interact")
                  ELSE /\ borrow' = interact_borrow(borrow)
                       /\ lastOp' = [Op("interact") EXCEPT !.id = id]
                       /\ UNCHANGED <<panic, depth, guards>>
    /\ UNCHANGED <<repaint_requests, fonts, input, out, trig, frames, frame_click, asked>>
    /\ UNCHANGED rcVars
    /\ UNCHANGED <<outside_press, output>>

(* ------------------- windows and areas (containers) -------------------- *)

\* PointerState::any_pressed
AnyPressed(inp) ==
    \E i \in 1..Len(inp.pointer_events) : inp.pointer_events[i].kind = "Pressed"

\* Area::show: the window's area is registered in Memory::areas
AreaShow ==
    /\ panic = "none"
    /\ depth > 0
    /\ "Window" \notin memory.areas
    /\ IF CanBorrowMut(borrow)
       THEN /\ memory' = [memory EXCEPT !.areas = @ \cup {"Window"}]
            /\ lastOp' = Op("area_show")
            /\ UNCHANGED <<panic, depth, borrow, guards>>
       ELSE /\ Panic("memory: already borrowed", "area_show")
            /\ UNCHANGED memory
    /\ UNCHANGED <<repaint_requests, fonts, input, used_ids, graphics>>
    /\ UNCHANGED obsVars
    /\ UNCHANGED rcVars
    /\ UNCHANGED <<outside_press, output>>

\* window chrome may start a drag only when no widget holds the drag claim
window_claimable(mem) == mem.drag_id = None \/ mem.drag_is_window

\* window.rs, window_interaction: a press on the window's chrome claims the drag
WindowInteraction ==
    /\ panic = "none"
    /\ depth > 0
    /\ "Window" \in memory.areas
    /\ rect_contains_pointer(memory, input, "Window", WindowRect)
    /\ AnyPressed(input) /\ AnyDown(input)
    /\ ~memory.window_interaction
    /\ IF CanBorrowMut(borrow)
       THEN /\ memory' = IF window_claimable(memory)
                         THEN [memory EXCEPT !.drag_id = WindowId,
                                             !.drag_is_window = TRUE,
                                             !.window_interaction = TRUE]
                         ELSE memory
            /\ lastOp' = Op("window_interaction")
            /\ UNCHANGED <<panic, depth, borrow, guards>>
       ELSE /\ Panic("memory: already borrowed", "window_interaction")
            /\ UNCHANGED memory
    /\ UNCHANGED <<repaint_requests, fonts, input, used_ids, graphics>>
    /\ UNCHANGED obsVars
    /\ UNCHANGED rcVars
    /\ UNCHANGED <<outside_press, output>>

(* ---------------------- fonts and pixels_per_point --------------------- *)

NoFontsPanic == "No fonts available until first call to CtxRef::run()"

\* the values set_pixels_per_point and RawInput::pixels_per_point take: 1.0,
\* 1.0005 (within 1e-3 of 1.0) and 2.0
PppValues == {10000, 10005, 20000}

\* CtxRef::set_fonts: memory.new_font_definitions after the call; a call with
\* the definitions of the cache returns at line 404 and leaves it as it was
set_fonts_pending(fnt, pending, font_definitions) ==
    IF fnt.present /\ fnt.definitions = font_definitions
    THEN pending
    ELSE font_definitions

\* CtxRef::set_fonts
SetFonts(font_definitions) ==
    /\ panic = "none"
    /\ IF CanBorrowMut(borrow)
       THEN /\ memory' = [memory EXCEPT !.new_font_definitions =
                              set_fonts_pending(fonts, @, font_definitions)]
            /\ asked' = [asked EXCEPT !.fonts = font_definitions]
            /\ lastOp' = Op("set_fonts")
            /\ UNCHANGED <<panic, depth, borrow, guards>>
       ELSE /\ Panic("set_fonts: already borrowed", "set_fonts")
            /\ UNCHANGED <<memory, asked>>
    /\ UNCHANGED <<repaint_requests, fonts, input, used_ids, graphics>>
    /\ UNCHANGED <<out, trig, frames, frame_click>>
    /\ UNCHANGED rcVars
    /\ UNCHANGED <<outside_press, output>>

\* set_pixels_per_point without the request_repaint of line 457
set_pixels_per_point_repaint_never(requests, pixels_per_point, current) == requests

\* CtxRef::set_pixels_per_point, lines 456-458: the repaint counter after them
set_pixels_per_point_repaint(requests, pixels_per_point, current) ==
    IF pixels_per_point # current THEN RepaintFrames ELSE requests

\* CtxRef::set_pixels_per_point: input() at line 456 needs the cell unborrowed
\* or shared, request_repaint and memory() need it unborrowed
SetPixelsPerPoint(pixels_per_point) ==
    /\ panic = "none"
    /\ LET differs == pixels_per_point # input.pixels_per_point
       IN IF CanBorrowMut(borrow)
          THEN /\ repaint_requests' = set_pixels_per_point_repaint(
                                          repaint_requests, pixels_per_point,
                                          input.pixels_per_point)
               /\ trig' = IF differs THEN Triggered(trig, TRUE) ELSE trig
               /\ frames' = IF differs THEN 0 ELSE frames
               /\ memory' = [memory EXCEPT !.new_pixels_per_point = pixels_per_point]
               /\ asked' = [asked EXCEPT !.ppp = IF differs THEN "pending" ELSE "none"]
               /\ lastOp' = Op("set_pixels_per_point")
               /\ UNCHANGED <<panic, depth, borrow, guards>>
          ELSE /\ Panic("set_pixels_per_point: already borrowed", "set_pixels_per_point")
               /\ UNCHANGED <<repaint_requests, trig, frames, memory, asked>>
    /\ UNCHANGED <<fonts, input, used_ids, graphics, out, frame_click>>
    /\ UNCHANGED rcVars
    /\ UNCHANGED <<outside_press, output>>

\* CtxRef::texture: self.fonts().texture()
Texture ==
    /\ panic = "none"
    /\ IF ~CanBorrow(borrow)
       THEN Panic("already mutably borrowed: BorrowError", "texture")
       ELSE IF ~fonts.present
       THEN Panic(NoFontsPanic, "texture")
       ELSE /\ lastOp' = Op("texture")
            /\ UNCHANGED <<panic, depth, borrow, guards>>
    /\ UNCHANGED ctxVars
    /\ UNCHANGED obsVars
    /\ UNCHANGED rcVars
    /\ UNCHANGED outside_press

\* CtxRef::tessellate: memory() at line 650, fonts() at line 657; paint_stats
\* is not part of the model
Tessellate ==
    /\ panic = "none"
    /\ IF ~CanBorrowMut(borrow)
       THEN Panic("tessellate: already borrowed", "tessellate")
       ELSE IF ~fonts.present
       THEN Panic(NoFontsPanic, "tessellate")
       ELSE /\ lastOp' = Op("tessellate")
            /\ UNCHANGED <<panic, depth, borrow, guards>>
    /\ UNCHANGED ctxVars
    /\ UNCHANGED obsVars
    /\ UNCHANGED rcVars
    /\ UNCHANGED outside_press

\* memory_ui, line 894: "Reset all" replaces the Memory by its default
MemoryReset ==
    /\ panic = "none"
    /\ depth > 0
    /\ IF CanBorrowMut(borrow)
       THEN /\ memory' = DefaultMemory
            /\ asked' = [ppp |-> IF asked.ppp = "applied" THEN "applied" ELSE "none",
                         fonts |-> None]
            /\ lastOp' = Op("memory_reset")
            /\ UNCHANGED <<panic, depth, borrow, guards>>
       ELSE /\ Panic("memory: already borrowed", "memory_reset")
            /\ UNCHANGED <<memory, asked>>
    /\ UNCHANGED <<repaint_requests, fonts, input, used_ids, graphics>>
    /\ UNCHANGED <<out, trig, frames, frame_click>>
    /\ UNCHANGED rcVars
    /\ UNCHANGED <<outside_press, output>>

\* the texts a widget puts into Output::copied_text
CopiedTexts == {"k"}

\* a widget writes to the Output: ctx.output().copied_text = text, the RefMut of
\* line 348 being a temporary of the statement
WriteOutput(text) ==
    /\ panic = "none"
    /\ depth > 0
    /\ IF CanBorrowMut(borrow)
       THEN /\ output' = [output EXCEPT !.copied_text = text]
            /\ lastOp' = Op("output")
            /\ UNCHANGED <<panic, depth, borrow, guards>>
       ELSE /\ Panic("output: already borrowed", "output")
            /\ UNCHANGED output
    /\ UNCHANGED <<repaint_requests, fonts, memory, input, used_ids, graphics>>
    /\ UNCHANGED obsVars
    /\ UNCHANGED rcVars
    /\ UNCHANGED outside_press

\* a widget paints: ctx.debug_painter().error(pos, text) adds a shape to the
\* debug layer through graphics() (line 343)
Paint(pos) ==
    /\ panic = "none"
    /\ depth > 0
    /\ Len(graphics) < MaxShapes
    /\ IF CanBorrowMut(borrow)
       THEN /\ graphics' = Append(graphics, ErrorShape(pos, "painted"))
            /\ lastOp' = Op("paint")
            /\ UNCHANGED <<panic, depth, borrow, guards>>
       ELSE /\ Panic("graphics: already borrowed", "paint")
            /\ UNCHANGED graphics
    /\ UNCHANGED <<repaint_requests, fonts, memory, input, used_ids, output>>
    /\ UNCHANGED obsVars
    /\ UNCHANGED rcVars
    /\ UNCHANGED outside_press

\* memory_ui, lines 909-911: "Reset" replaces the areas by their default and
\* leaves the rest of the Memory
MemoryResetAreas ==
    /\ panic = "none"
    /\ depth > 0
    /\ IF CanBorrowMut(borrow)
       THEN /\ memory' = [memory EXCEPT !.areas = {}]
            /\ lastOp' = Op("memory_reset_areas")
            /\ UNCHANGED <<panic, depth, borrow, guards>>
       ELSE /\ Panic("memory: already borrowed", "memory_reset_areas")
            /\ UNCHANGED memory
    /\ UNCHANGED <<repaint_requests, fonts, input, used_ids, graphics, output>>
    /\ UNCHANGED obsVars
    /\ UNCHANGED rcVars
    /\ UNCHANGED outside_press

\* a caller writes to the input through input_mut() (line 369), the RefMut
\* being a temporary of the statement: it clears the frame's pointer events
InputMutWrite ==
    /\ panic = "none"
    /\ depth > 0
    /\ IF CanBorrowMut(borrow)
       THEN /\ input' = [input EXCEPT !.pointer_events = <<>>]
            /\ lastOp' = Op("input_mut_write")
            /\ UNCHANGED <<panic, depth, borrow, guards>>
       ELSE /\ Panic("input_mut: already borrowed", "input_mut_write")
            /\ UNCHANGED input
    /\ UNCHANGED <<repaint_requests, fonts, memory, used_ids, graphics, output>>
    /\ UNCHANGED obsVars
    /\ UNCHANGED rcVars
    /\ UNCHANGED outside_press

\* emath::Rect::translate
RectTranslate(r, delta) ==
    [min |-> <<r.min[1] + delta[1], r.min[2] + delta[2]>>,
     max |-> <<r.max[1] + delta[1], r.max[2] + delta[2]>>]

\* PaintList::translate on the list of one layer: every shape of it moves
translate_layer(g, layer_id, delta) ==
    [i \in 1..Len(g) |->
        IF g[i].layer = layer_id
        THEN [g[i] EXCEPT !.rect = RectTranslate(@, delta)]
        ELSE g[i]]

\* the moves a caller asks for: none, or 10 points to the right
Deltas == {<<0, 0>>, <<100, 0>>}

\* the shapes of a moved layer stay left of this x
MaxTranslateX == 2800

\* CtxRef::translate_layer, lines 724-728: graphics() is borrowed only when
\* the delta is not zero
TranslateLayer(layer_id, delta) ==
    /\ panic = "none"
    /\ depth > 0
    /\ \A i \in 1..Len(graphics) :
          graphics[i].layer = layer_id => graphics[i].rect.max[1] + delta[1] <= MaxTranslateX
    /\ IF delta = <<0, 0>>
       THEN /\ lastOp' = Op("translate_layer")
            /\ UNCHANGED <<panic, depth, borrow, guards, graphics>>
       ELSE IF CanBorrowMut(borrow)
       THEN /\ graphics' = translate_layer(graphics, layer_id, delta)
            /\ lastOp' = Op("translate_layer")
            /\ UNCHANGED <<panic, depth, borrow, guards>>
       ELSE /\ Panic("graphics: already borrowed", "translate_layer")
            /\ UNCHANGED graphics
    /\ UNCHANGED <<repaint_requests, fonts, memory, input, used_ids, output>>
    /\ UNCHANGED obsVars
    /\ UNCHANGED rcVars
    /\ UNCHANGED outside_press

TranslateLayerAny == \E layer_id \in {"Debug", "Background"}, delta \in Deltas :
                         TranslateLayer(layer_id, delta)

\* Memory::request_focus
RequestFocusMem(mem, id) == [mem EXCEPT !.focus = id]

\* a widget asks for the keyboard focus: ctx.memory().request_focus(id), the
\* RefMut of line 339 being a temporary of the statement
RequestFocus(id) ==
    /\ panic = "none"
    /\ depth > 0
    /\ IF CanBorrowMut(borrow)
       THEN /\ memory' = RequestFocusMem(memory, id)
            /\ lastOp' = [Op("request_focus") EXCEPT !.id = id]
            /\ UNCHANGED <<panic, depth, borrow, guards>>
       ELSE /\ Panic("memory: already borrowed", "request_focus")
            /\ UNCHANGED memory
    /\ UNCHANGED <<repaint_requests, fonts, input, used_ids, graphics>>
    /\ UNCHANGED obsVars
    /\ UNCHANGED rcVars
    /\ UNCHANGED <<outside_press, output>>

(* --------------------------- pointer queries --------------------------- *)

\* FrameState::unused_rect of a frame without panels
UnusedRect == ScreenRect

\* CtxRef::is_pointer_over_area
is_pointer_over_area(mem, inp) ==
    LET pointer_pos == inp.interact_pos
    IN IF pointer_pos # NoPos
       THEN LET layer == LayerIdAt(mem, pointer_pos)
            IN IF layer # None
               THEN IF layer = "Background"
                    THEN ~RectContains(UnusedRect, pointer_pos)
                    ELSE TRUE
               ELSE FALSE
       ELSE FALSE

\* CtxRef::is_using_pointer: a click or a drag is claimed
is_using_pointer(mem) == mem.click_id # None \/ mem.drag_id # None

\* wants_pointer_input that does not look at the buttons
wants_pointer_input_over_area(mem, inp) ==
    is_using_pointer(mem) \/ is_pointer_over_area(mem, inp)

\* CtxRef::wants_pointer_input
wants_pointer_input(mem, inp) ==
    is_using_pointer(mem) \/ (is_pointer_over_area(mem, inp) /\ ~AnyDown(inp))

(* ------------------------------- animation ----------------------------- *)

\* the values AnimationManager::animate_bool returns, in tenths: 0.0, 0.5, 1.0
AnimatedValues == {0, 5, 10}

\* animate_bool_with_time that counts 0 and 1 as an animation in progress
animate_bool_repaint_inclusive(requests, animated_value) ==
    IF 0 <= animated_value /\ animated_value <= 10 THEN RepaintFrames ELSE requests

\* animate_bool_with_time, lines 784-787: the repaint counter after them
animate_bool_repaint(requests, animated_value) ==
    IF 0 < animated_value /\ animated_value < 10 THEN RepaintFrames ELSE requests

\* CtxRef::animate_bool / animate_bool_with_time; the AnimationManager returns
\* animated_value
AnimateBool(animated_value) ==
    /\ panic = "none"
    /\ IF CanBorrowMut(borrow)
       THEN LET animation_in_progress == 0 < animated_value /\ animated_value < 10
            IN /\ repaint_requests' = animate_bool_repaint(repaint_requests, animated_value)
               /\ trig' = IF animation_in_progress THEN Triggered(trig, TRUE) ELSE trig
               /\ frames' = IF animation_in_progress THEN 0 ELSE frames
               /\ lastOp' = [Op("animate_bool") EXCEPT !.ret = animated_value]
               /\ UNCHANGED <<panic, depth, borrow, guards>>
       ELSE /\ Panic("animate_bool: already borrowed", "animate_bool")
            /\ UNCHANGED <<repaint_requests, trig, frames>>
    /\ UNCHANGED <<fonts, memory, input, used_ids, graphics, out, frame_click, asked>>
    /\ UNCHANGED rcVars
    /\ UNCHANGED <<outside_press, output>>

(* --------------------------------- clones ------------------------------ *)

\* Clone for CtxRef (derived): the new handle holds the same Rc
Clone ==
    /\ panic = "none"
    /\ \E h \in Handles, c \in Handles :
         /\ handles[h] # None
         /\ handles[c] = None
         /\ handles' = [handles EXCEPT ![c] = handles[h]]
    /\ lastOp' = Op("clone")
    /\ UNCHANGED <<depth, borrow, guards, panic, old_ctx, outside_press>>
    /\ UNCHANGED ctxVars
    /\ UNCHANGED obsVars

\* the Context a handle gives access to
Observe(h) ==
    IF handles[h] = "live" THEN Ctx
    ELSE IF handles[h] = "old" THEN old_ctx
    ELSE None

(* ------------------------- guards handed to callers -------------------- *)

\* accessors that return a RefMut: memory(), output(), input_mut()
MutAccessors == {"memory", "output", "input_mut"}

\* accessors that return a Ref: input(), fonts()
RefAccessors == {"input", "fonts"}

\* CtxRef::memory, CtxRef::output, CtxRef::input_mut: the borrow flag when the
\* accessor has returned
mut_accessor_borrow(b) == AcquireMut(b)

\* CtxRef::input, CtxRef::fonts: the borrow flag when the accessor has returned
ref_accessor_borrow(b) == AcquireRef(b)

\* the caller calls an accessor and keeps the guard it returns
AcquireGuard(a) ==
    /\ panic = "none"
    /\ IF a \in MutAccessors
       THEN IF CanBorrowMut(borrow)
            THEN /\ borrow' = mut_accessor_borrow(borrow)
                 /\ guards' = [guards EXCEPT !.mut = @ + 1]
                 /\ lastOp' = Op(a)
                 /\ UNCHANGED <<panic, depth>>
            ELSE Panic("already borrowed: BorrowMutError", a)
       ELSE /\ guards.ref < MaxGuards
            /\ IF ~CanBorrow(borrow)
               THEN Panic("already mutably borrowed: BorrowError", a)
               ELSE IF a = "fonts" /\ ~fonts.present
               THEN Panic(NoFontsPanic, a)
               ELSE /\ borrow' = ref_accessor_borrow(borrow)
                    /\ guards' = [guards EXCEPT !.ref = @ + 1]
                    /\ lastOp' = Op(a)
                    /\ UNCHANGED <<panic, depth>>
    /\ UNCHANGED ctxVars
    /\ UNCHANGED obsVars
    /\ UNCHANGED rcVars
    /\ UNCHANGED outside_press

\* the caller drops a guard: Drop for RefMut / Ref
DropGuard(kind) ==
    /\ panic = "none"
    /\ guards[kind] > 0
    /\ guards' = [guards EXCEPT ![kind] = @ - 1]
    /\ borrow' = IF kind = "mut" THEN ReleaseMut(borrow) ELSE ReleaseRef(borrow)
    /\ lastOp' = Op("drop")
    /\ UNCHANGED <<panic, depth>>
    /\ UNCHANGED ctxVars
    /\ UNCHANGED obsVars
    /\ UNCHANGED rcVars
    /\ UNCHANGED outside_press

(* --------------------------- specifications ---------------------------- *)

\* every raw input of the model
AllRawInputs == RawInputs(MaxEvents, Positions, Buttons, BOOLEAN, SUBSET Keys)

\* frames of a pointer that stays inside RectA and RectB, reported in every
\* frame, with one of its buttons pressed and released
ButtonRawInputs ==
    { r \in RawInputs(MaxEvents, {PosAB}, Buttons, {FALSE}, {{}}) :
        /\ r.pos # NoPos
        /\ \A i, j \in 1..Len(r.buttons) : r.buttons[i].button = r.buttons[j].button }

\* frames without pointer buttons: the pointer rests, moves or leaves, keys are pressed
PlainRawInputs == RawInputs(0, {PosA, PosC}, Buttons, BOOLEAN, {{}, {"Space"}})

\* the widgets "A" at RectA and "B" at RectB, on the background or in the window
InteractWidgets ==
    \E layer_id \in {"Background", "Window"}, id \in WidgetIds,
       sense \in {s \in Senses : s.click \/ s.drag} :
        /\ depth > 0
        /\ Interact(ScreenRect, 80, layer_id, id, IF id = "A" THEN RectA ELSE RectB,
                    sense, TRUE)

\* a widget's interact call with every argument free
InteractAny ==
    \E clip_rect \in ClipRects, item_spacing \in ItemSpacings, layer_id \in Layers,
       id \in WidgetIds, rect \in WidgetRects, sense \in Senses, enabled \in BOOLEAN :
        /\ depth > 0
        /\ Interact(clip_rect, item_spacing, layer_id, id, rect, sense, enabled)

\* interact calls of a click-sensitive widget "A" laid out on the background
InteractBackground ==
    \E rect \in {RectA, RectInA, RectC} :
        /\ depth > 0
        /\ Interact(ScreenRect, 80, "Background", "A", rect,
                    [click |-> TRUE, drag |-> FALSE, focusable |-> TRUE], TRUE)

\* frames in which the pointer rests at PosA or is absent
RestingRawInputs ==
    RawInputs(0, {PosA}, Buttons, {FALSE}, {{}})

RunBeginResting == \E raw \in RestingRawInputs : RunBegin(raw)

RunBeginAny == \E raw \in AllRawInputs : RunBegin(raw)

RunBeginPlain == \E raw \in PlainRawInputs : RunBegin(raw)

\* frames that do not nest
RunBeginButtons == \E raw \in ButtonRawInputs : depth = 0 /\ RunBegin(raw)

AcquireAny == \E a \in MutAccessors \cup RefAccessors : AcquireGuard(a)

DropAny == \E kind \in {"mut", "ref"} : DropGuard(kind)

\* the frame loop and the repaint counter
NextRepaint == RunBeginPlain \/ RunEnd \/ RequestRepaint

SpecRepaint == Init /\ [][NextRepaint]_vars

\* the frame loop, callers that keep guards, and Id registration
NextBorrow ==
    \/ RunBeginResting
    \/ RunEnd
    \/ RequestRepaint
    \/ InteractBackground
    \/ AcquireAny
    \/ DropAny

SpecBorrow == Init /\ [][NextBorrow]_vars

\* a strip of 2 points one point above RectA: apart from it, corners 3 points apart
RectAbove == Rect(100, 70, 1000, 90)

\* a rectangle of no width 0.1 point to the right of RectA: apart from it, and
\* inside RectA grown by 0.1
RectBeside == Rect(1001, 100, 1001, 400)

\* rectangles an Id is registered with: RectA, one inside it, one that overlaps
\* it, one far from it, one next to it and one within 0.1 point of it
RegisterRects == {RectA, RectInA, RectB, RectC, RectAbove, RectBeside}

\* interact calls that register the Id "A" again and again
InteractRegister ==
    \E rect \in RegisterRects :
        /\ depth > 0
        /\ Interact(ScreenRect, 80, "Background", "A", rect,
                    [click |-> TRUE, drag |-> FALSE, focusable |-> TRUE], TRUE)

\* the frame loop and registrations of one Id
NextRegister == RunBeginResting \/ RunEnd \/ InteractRegister

SpecRegister == Init /\ [][NextRegister]_vars

\* frames in which the primary button is pressed and released over RectA and RectB
PressRawInputs ==
    { r \in RawInputs(MaxEvents, {PosAB}, {"Primary"}, {FALSE}, {{}}) : r.pos # NoPos }

RunBeginPress == \E raw \in PressRawInputs : depth = 0 /\ RunBegin(raw)

\* the frame loop with a pointer button and widgets under the pointer
NextHover == RunBeginPress \/ RunEnd \/ InteractWidgets \/ AreaShow \/ MemoryResetAreas

SpecHover == Init /\ [][NextHover]_vars

\* the frame loop with pointer buttons, widgets and window chrome
NextInteract ==
    \/ RunBeginButtons
    \/ RunEnd
    \/ InteractWidgets
    \/ AreaShow
    \/ WindowInteraction

SpecInteract == Init /\ [][NextInteract]_vars

\* raw inputs without pointer events that may carry a pixels_per_point
FontRawInputs ==
    { [r EXCEPT !.pixels_per_point = v] :
        r \in RawInputs(0, {}, {"Primary"}, {FALSE}, {{}}), v \in {0} \cup PppValues }

RunBeginFonts == \E raw \in FontRawInputs : depth = 0 /\ RunBegin(raw)

SetFontsAny == \E d \in FontDefs : SetFonts(d)

SetPixelsPerPointAny == \E v \in PppValues : SetPixelsPerPoint(v)

AcquireFonts == AcquireGuard("fonts")

DropFonts == DropGuard("ref")

\* the font cache: frames, set_fonts, set_pixels_per_point, the readers of the
\* cache, and the reset of Memory
NextFonts ==
    \/ RunBeginFonts
    \/ RunEnd
    \/ SetFontsAny
    \/ SetPixelsPerPointAny
    \/ Texture
    \/ Tessellate
    \/ AcquireFonts
    \/ DropFonts
    \/ MemoryReset

SpecFonts == Init /\ [][NextFonts]_vars

\* a pointer outside the window (PosA) or over it (PosAB), with at most one
\* button event in a frame
PointerRawInputs ==
    { r \in RawInputs(1, {PosA, PosAB}, Buttons, {FALSE}, {{}}) : ~r.gone /\ ~r.expired }

\* frames that do not nest; a button that is up is pressed, one that is down
\* is released
RunBeginPointer ==
    \E raw \in PointerRawInputs :
        /\ depth = 0
        /\ \A i \in 1..Len(raw.buttons) :
              raw.buttons[i].pressed <=> raw.buttons[i].button \notin input.down
        /\ RunBegin(raw)

\* the widget "B" at RectB in the window, sensitive to clicks or to drags
InteractInWindow ==
    \E sense \in {s \in Senses : s.click # s.drag} :
        /\ depth > 0
        /\ Interact(ScreenRect, 80, "Window", "B", RectB, sense, TRUE)

\* a window with a widget on an empty background, and a pointer with two buttons
NextPointer ==
    \/ RunBeginPointer
    \/ RunEnd
    \/ InteractInWindow
    \/ AreaShow
    \/ WindowInteraction
    \/ MemoryResetAreas
    \/ InputMutWrite

SpecPointer == Init /\ [][NextPointer]_vars

AnimateBoolAny == \E v \in AnimatedValues : AnimateBool(v)

\* frames in which widgets animate
NextAnimate == RunBeginPlain \/ RunEnd \/ AnimateBoolAny

SpecAnimate == Init /\ [][NextAnimate]_vars

\* run called between frames and from inside a run_ui closure
RunBeginNested == \E raw \in FontRawInputs : RunBeginWithin(raw, MaxNesting)

\* frames whose run_ui closures call run, request_repaint and set_fonts
NextFrames ==
    \/ RunBeginNested
    \/ RunEnd
    \/ RequestRepaint
    \/ SetFontsAny

SpecFrames == Init /\ [][NextFrames]_vars

\* a handle and its clone: frames, and the changes made through either
NextClones ==
    \/ RunBeginFonts
    \/ RunEnd
    \/ Clone
    \/ RequestRepaint
    \/ SetPixelsPerPointAny
    \/ MemoryReset

SpecClones == Init /\ [][NextClones]_vars

\* run called between frames and from inside a run_ui closure, the pointer at rest
RunBeginOutput == \E raw \in RestingRawInputs : RunBeginWithin(raw, MaxNesting)

WriteOutputAny == \E text \in CopiedTexts : WriteOutput(text)

PaintAny == \E pos \in {PosA, PosC} : Paint(pos)

\* frames, nested or not, in which widgets paint, write to the Output and
\* ask for a repaint
NextOutput ==
    \/ RunBeginOutput
    \/ RunEnd
    \/ WriteOutputAny
    \/ PaintAny
    \/ TranslateLayerAny
    \/ RequestRepaint

SpecOutput == Init /\ [][NextOutput]_vars

\* a button is pressed only while it is up and released only while it is down
RECURSIVE Physical(_, _)
Physical(down, evs) ==
    IF evs = <<>> THEN TRUE
    ELSE /\ Head(evs).pressed <=> Head(evs).button \notin down
         /\ Physical(IF Head(evs).pressed THEN down \cup {Head(evs).button}
                     ELSE down \ {Head(evs).button},
                     Tail(evs))

\* frames of a pointer that stays inside RectA and RectB, with presses and
\* releases of its two buttons
TwoButtonRawInputs ==
    { r \in RawInputs(MaxEvents, {PosAB}, Buttons, {FALSE}, {{}}) : r.pos # NoPos }

\* frames that do not nest
RunBeginTwoButtons ==
    \E raw \in TwoButtonRawInputs :
        /\ depth = 0
        /\ Physical(input.down, raw.buttons)
        /\ RunBegin(raw)

\* the widgets "A" at RectA and "B" at RectB on the background
InteractOnBackground ==
    \E id \in WidgetIds, sense \in {s \in Senses : s.click \/ s.drag} :
        /\ depth > 0
        /\ Interact(ScreenRect, 80, "Background", id, IF id = "A" THEN RectA ELSE RectB,
                    sense, TRUE)

\* the frame loop, two buttons and two widgets under the pointer
NextButtons == RunBeginTwoButtons \/ RunEnd \/ InteractOnBackground \/ InputMutWrite

SpecButtons == Init /\ [][NextButtons]_vars

\* frames of a pointer that is over RectA alone, far from every widget or
\* absent, with the primary button and the keys Space and Enter
FocusRawInputs ==
    { r \in RawInputs(1, {PosA, PosC}, {"Primary"}, {FALSE}, {{}, {"Space"}, {"Enter"}}) :
        \A i \in 1..Len(r.buttons) : r.buttons[i].double = FALSE }

\* frames that do not nest; a button is pressed when it is up and released when
\* it is down
RunBeginFocus ==
    \E raw \in FocusRawInputs :
        /\ depth = 0
        /\ \A i \in 1..Len(raw.buttons) :
              raw.buttons[i].pressed <=> raw.buttons[i].button \notin input.down
        /\ RunBegin(raw)

\* the widget "A" at RectA on the background or in a tooltip, of every sense,
\* enabled or not
InteractFocus ==
    \E layer_id \in {"Background", "Tooltip"}, sense \in Senses, enabled \in BOOLEAN :
        /\ depth > 0
        /\ Interact(ScreenRect, 80, layer_id, "A", RectA, sense, enabled)

RequestFocusAny == \E id \in WidgetIds : RequestFocus(id)

\* the frame loop, one widget and the keyboard focus
NextFocus == RunBeginFocus \/ RunEnd \/ InteractFocus \/ RequestFocusAny

SpecFocus == Init /\ [][NextFocus]_vars

Next ==
    \/ RunBeginAny
    \/ RunBeginPlain
    \/ RunEnd
    \/ RequestRepaint
    \/ InteractAny
    \/ AreaShow
    \/ WindowInteraction
    \/ AcquireAny
    \/ DropAny
    \/ SetFontsAny
    \/ SetPixelsPerPointAny
    \/ Texture
    \/ Tessellate
    \/ MemoryReset
    \/ Clone
    \/ RunBeginNested
    \/ AnimateBoolAny
    \/ RequestFocusAny
    \/ WriteOutputAny
    \/ PaintAny
    \/ MemoryResetAreas
    \/ InputMutWrite
    \/ TranslateLayerAny

Spec == Init /\ [][Next]_vars


(* ------------------------------ properties ----------------------------- *)

ShowErrorPanic == "show_error: already borrowed: BorrowMutError"

NoGuards == guards.ref = 0 /\ guards.mut = 0

\* the panics of an operation that found the Context borrowed when it asked
\* for its own borrow
EntryBorrowPanics ==
    {"run: already borrowed", "request_repaint: already borrowed",
     "end_frame: already borrowed", "interact: already borrowed",
     "memory: already borrowed", "already borrowed: BorrowMutError",
     "already mutably borrowed: BorrowError"}

\* C1: from a fresh handle, while no input wants a repaint and nothing calls
\* request_repaint, the repaint counter is 0 after the first end_frame and
\* after every later one, and every frame after the first returns
\* needs_repaint = false
C1_QuietCounterSettles ==
    (trig.since = Never /\ frames >= 1) =>
        /\ repaint_requests = 0
        /\ frames >= 2 => ~out.needs_repaint

\* the second quiet frame of a fresh handle has ended
C1_SecondQuietFrame ==
    /\ trig.since = Never
    /\ frames = 2
    /\ lastOp.op = "end_frame"
    /\ panic = "none"
    /\ repaint_requests = 0
    /\ ~out.needs_repaint

\* C2: after a request_repaint, the end_frame of the frame it fell in and the
\* end_frame of the frame after it both return needs_repaint = true
C2_RequestSurvivesOneFrame ==
    (trig.calls >= 1 /\ trig.since \in {1, 2}) => out.needs_repaint

\* the frame after the one that called request_repaint has ended, with no
\* trigger since the call
C2_FrameAfterRequest ==
    /\ trig.calls >= 1
    /\ trig.since = 2
    /\ lastOp.op = "end_frame"
    /\ panic = "none"
    /\ out.needs_repaint

\* C3, as the specification states it: after request_repaint calls in one
\* frame and no later trigger, the frame after it returns needs_repaint = false
C3_OneRepaintPerRequest ==
    (trig.calls >= 1 /\ trig.since = 2) => ~out.needs_repaint

\* C3: after one or more request_repaint calls in one frame and no later
\* trigger, the frame of the calls and the frame after it return
\* needs_repaint = true, and every frame from the second after it on returns
\* false, whatever the number of calls
C3_TwoRepaintsPerRequest ==
    trig.calls >= 1 =>
        /\ trig.since \in {1, 2} => out.needs_repaint
        /\ trig.since >= 3 => (~out.needs_repaint /\ repaint_requests = 0)

\* request_repaint was called more than once in a frame, and the second frame
\* after it has ended
C3_SecondFrameAfterRequests ==
    /\ trig.calls >= 2
    /\ trig.since = 3
    /\ lastOp.op = "end_frame"
    /\ panic = "none"
    /\ ~out.needs_repaint

\* C4: while run_ui executes, run holds no borrow: the Context is borrowed by
\* nothing but the guards the closure itself keeps, so an operation the closure
\* invokes while it keeps no guard finds the Context free and acquires its
\* borrow
C4_RunHoldsNoBorrow ==
    depth > 0 =>
        /\ borrow = guards.ref - guards.mut
        /\ NoGuards => (borrow = 0 /\ panic \notin EntryBorrowPanics)

\* the closure has called interact and later memory(), and both returned
C4_ClosureBorrowed ==
    /\ depth > 0
    /\ panic = "none"
    /\ lastOp.op = "memory"
    /\ used_ids["A"] # <<>>
    /\ guards.mut = 1

\* C5, as the specification states it: when a public operation has returned,
\* no borrow it took is still active
C5_NoBorrowOutlivesOperation ==
    [][(panic' = "none" /\ lastOp'.op # "drop") => borrow' = borrow]_vars

\* C5: an operation that returns a plain value leaves the borrow flag as it
\* found it; memory() and output() return a guard that keeps one mutable
\* borrow active, input() and fonts() one that keeps one shared borrow active,
\* until the caller drops it
C5_OnlyGuardsOutliveOperation ==
    [][panic' = "none" =>
        /\ lastOp'.op \in MutAccessors =>
               (borrow' = AcquireMut(borrow) /\ guards'.mut = guards.mut + 1)
        /\ lastOp'.op \in RefAccessors =>
               (borrow' = AcquireRef(borrow) /\ guards'.ref = guards.ref + 1)
        /\ lastOp'.op \notin MutAccessors \cup RefAccessors \cup {"drop"} =>
               (borrow' = borrow /\ guards' = guards)]_vars

\* input() has returned inside the closure and its Ref is still alive
C5_GuardAlive ==
    /\ depth > 0
    /\ panic = "none"
    /\ lastOp.op = "input"
    /\ guards.ref = 1
    /\ borrow = 1

\* C6: an interact call that re-uses an Id with a rectangle apart from the
\* first one completes: it never asks for the mutable borrow of the Context
\* while another borrow is active
C6_DuplicateIdNonFatal == panic # ShowErrorPanic


(* -------------------- properties of the claim resolver ----------------- *)

\* the arguments of one interact call
CallArgs(clips, spacings, layers, ids, rects, senses, enableds) ==
    [clip_rect : clips, item_spacing : spacings, layer_id : layers, id : ids,
     rect : rects, sense : senses, enabled : enableds]

\* the outcome of interact called with the arguments a on the Context c
Call(c, b, a) ==
    interact(c, b, a.clip_rect, a.item_spacing, a.layer_id, a.id, a.rect, a.sense,
             a.enabled)

\* the Context a call has left behind
After(c, res) ==
    [c EXCEPT !.memory = res.memory, !.used_ids = res.used_ids,
              !.graphics = res.graphics]

SenseClick == [click |-> TRUE, drag |-> FALSE, focusable |-> TRUE]

SenseHover == [click |-> FALSE, drag |-> FALSE, focusable |-> FALSE]

\* the Context can be borrowed by a call made now
Callable == panic = "none" /\ borrow = 0

\* the pointer events of the frame that are not Moved
ButtonEvents(inp) == SelectSeq(inp.pointer_events, LAMBDA e : e.kind # "Moved")

\* the frame's button events are Pressed, then Released carrying a click
PressThenClick(inp) ==
    /\ Len(ButtonEvents(inp)) = 2
    /\ ButtonEvents(inp)[1].kind = "Pressed"
    /\ ButtonEvents(inp)[2].kind = "Released"
    /\ ButtonEvents(inp)[2].has_click

\* the part of the widget's rectangle left by the clip rectangle holds the
\* pointer, and the widget's layer is the topmost one there
VisibleUnderPointer(mem, inp, a) ==
    /\ inp.interact_pos # NoPos
    /\ RectContains(RectIntersect(a.clip_rect, a.rect), inp.interact_pos)
    /\ LayerIdAt(mem, inp.interact_pos) = a.layer_id

\* C7: an interact call changes neither a click claim that some id holds nor
\* a drag claim that a widget holds, and each claim is held by at most one id
C7_ClaimsAreFirstCome ==
    [][lastOp'.op = "interact" =>
        /\ memory.click_id # None => memory'.click_id = memory.click_id
        /\ (memory.drag_id # None /\ ~memory.drag_is_window) =>
               (memory'.drag_id = memory.drag_id /\ ~memory'.drag_is_window)
        /\ memory'.click_id \in WidgetIds \cup {None}
        /\ memory'.drag_id \in WidgetIds \cup {WindowId, None}]_vars

\* "A" holds the click claim of a press, and the hovered click-sensitive
\* widget "B" has called interact after it in the same frame
C7_SecondWidgetCameLate ==
    /\ depth > 0
    /\ panic = "none"
    /\ lastOp.op = "interact" /\ lastOp.id = "B"
    /\ memory.click_id = "A"
    /\ used_ids["A"] # <<>>
    /\ AnyPressed(input)
    /\ rect_contains_pointer(memory, input, LayerIdAt(memory, input.interact_pos), RectB)

\* C8: a press on a hovered, enabled, drag-sensitive widget while the drag
\* claim is window chrome gives the claim to the widget and clears the
\* window-move state; window chrome that asks for the drag while a widget holds
\* it changes nothing
C8_WidgetDragPreemptsWindow ==
    /\ [](\A a \in CallArgs(ClipRects, ItemSpacings, Layers, WidgetIds, WidgetRects,
                            {s \in Senses : s.drag}, {TRUE}) :
            (Callable /\ memory.drag_is_window /\ AnyPressed(input)) =>
                LET res == Call(Ctx, borrow, a)
                IN (res.hovered /\ ~res.early /\ res.panic = "none") =>
                       /\ res.memory.drag_id = a.id
                       /\ ~res.memory.drag_is_window
                       /\ ~res.memory.window_interaction)
    /\ [][(lastOp'.op = "window_interaction" /\ memory.drag_id \in WidgetIds
           /\ ~memory.drag_is_window) => memory' = memory]_vars

\* the window's chrome has claimed the drag of a press, and a drag-sensitive
\* widget in the window, under the pointer, can still call interact
C8_WindowHoldsDrag ==
    /\ depth > 0
    /\ Callable
    /\ lastOp.op = "window_interaction"
    /\ memory.drag_id = WindowId
    /\ memory.drag_is_window
    /\ memory.window_interaction
    /\ AnyPressed(input)
    /\ Call(Ctx, borrow, [clip_rect |-> ScreenRect, item_spacing |-> 80,
                          layer_id |-> "Window", id |-> "B", rect |-> RectB,
                          sense |-> [click |-> FALSE, drag |-> TRUE, focusable |-> TRUE],
                          enabled |-> TRUE]).memory.drag_id = "B"

\* C9, as the specification states it: no click is claimed when the frame
\* begins, its button events are Pressed then Released with a click for
\* button b: interact of an enabled click-only widget under the pointer on
\* the topmost layer returns clicked[b], hovered and not dragged
C9_ClickWhenFrameBeganUnclaimed ==
    (Callable /\ depth > 0 /\ frame_click = None /\ PressThenClick(input)) =>
        \A a \in CallArgs(ClipRects, ItemSpacings, Layers, WidgetIds, WidgetRects,
                          {SenseClick}, {TRUE}) :
            VisibleUnderPointer(memory, input, a) =>
                LET res == Call(Ctx, borrow, a)
                IN res.panic = "none" =>
                       /\ res.response.clicked[ButtonEvents(input)[2].button]
                       /\ res.response.hovered
                       /\ ~res.response.dragged

\* C9: no other id holds the click claim when interact is called, the
\* frame's button events are Pressed then Released with a click for button b:
\* interact of an enabled click-only widget whose clipped rectangle holds the
\* pointer on the topmost layer returns clicked[b], hovered and not dragged
C9_ClickWhenUnclaimedAtCall ==
    (Callable /\ PressThenClick(input)) =>
        \A a \in CallArgs(ClipRects, ItemSpacings, Layers, WidgetIds, WidgetRects,
                          {SenseClick}, {TRUE}) :
            (VisibleUnderPointer(memory, input, a) /\ memory.click_id \in {None, a.id}) =>
                LET res == Call(Ctx, borrow, a)
                IN res.panic = "none" =>
                       /\ res.response.clicked[ButtonEvents(input)[2].button]
                       /\ res.response.hovered
                       /\ ~res.response.dragged
                       /\ res.memory.click_id = a.id

\* in a frame of a press and a click of the secondary button, "A" has called
\* interact, holds the click claim, and its interact returns clicked
C9_WidgetClicked ==
    /\ depth > 0
    /\ Callable
    /\ PressThenClick(input)
    /\ ButtonEvents(input)[2].button = "Secondary"
    /\ lastOp.op = "interact" /\ lastOp.id = "A"
    /\ memory.click_id = "A"
    /\ \E layer_id \in Layers :
           LET a == [clip_rect |-> ScreenRect, item_spacing |-> 80,
                     layer_id |-> layer_id, id |-> "A", rect |-> RectA,
                     sense |-> SenseClick, enabled |-> TRUE]
           IN /\ VisibleUnderPointer(memory, input, a)
              /\ Call(Ctx, borrow, a).response.clicked["Secondary"]

\* the calls of two regions "A" and "B" whose rectangles both hold the pointer
RegionPairs ==
    { p \in CallArgs({ScreenRect}, {80}, Layers, {"A"}, {RectA, RectInA},
                     {SenseClick}, {TRUE})
            \X CallArgs({ScreenRect}, {80}, Layers, {"B"}, {RectB, RectC},
                        {SenseHover, SenseClick}, {TRUE}) :
        /\ input.interact_pos # NoPos
        /\ RectContains(p[1].rect, input.interact_pos)
        /\ RectContains(p[2].rect, input.interact_pos) }

\* C10, as the specification states it: of two regions on the same layer that
\* both hold the pointer, with no button down, the interact calls do not both
\* return hovered
C10_OnlyOneRegionHovers ==
    (Callable /\ depth > 0 /\ ~AnyDown(input)) =>
        \A p \in RegionPairs :
            p[1].layer_id = p[2].layer_id =>
                LET r1 == Call(Ctx, borrow, p[1])
                    r2 == Call(After(Ctx, r1), borrow, p[2])
                IN (r1.panic = "none" /\ r2.panic = "none") =>
                       ~(r1.response.hovered /\ r2.response.hovered)

\* C10: with no button down, interact returns hovered exactly for an enabled
\* region whose clipped hit rectangle holds the pointer and whose layer is the
\* topmost one there; so of two regions that both hold the pointer, two on
\* different layers never both return hovered, and two on the topmost layer
\* both do
C10_HoverOnlyOnTopmostLayer ==
    (Callable /\ depth > 0 /\ ~AnyDown(input)) =>
        /\ \A a \in CallArgs(ClipRects, ItemSpacings, Layers, {"A"}, WidgetRects,
                             {SenseHover, SenseClick}, BOOLEAN) :
               LET res == Call(Ctx, borrow, a)
               IN res.panic = "none" =>
                      (res.response.hovered <=>
                          /\ a.enabled
                          /\ input.interact_pos # NoPos
                          /\ LayerIdAt(memory, input.interact_pos) = a.layer_id
                          /\ RectContains(RectIntersect(a.clip_rect,
                                 interact_rect(a.rect, a.item_spacing)),
                                 input.interact_pos))
        /\ \A p \in RegionPairs :
               LET r1 == Call(Ctx, borrow, p[1])
                   r2 == Call(After(Ctx, r1), borrow, p[2])
               IN (r1.panic = "none" /\ r2.panic = "none") =>
                      /\ p[1].layer_id # p[2].layer_id =>
                             ~(r1.response.hovered /\ r2.response.hovered)
                      /\ (p[1].layer_id = LayerIdAt(memory, input.interact_pos)
                          /\ p[2].layer_id = p[1].layer_id) =>
                             (r1.response.hovered /\ r2.response.hovered)

\* the pointer rests, with no button down, on "A" in the window and on "B"
\* behind the window: "A" returns hovered and "B" does not
C10_WindowCoversBackground ==
    /\ depth > 0
    /\ Callable
    /\ ~AnyDown(input)
    /\ lastOp.op = "interact"
    /\ "Window" \in memory.areas
    /\ \E p \in RegionPairs :
           /\ p[1].layer_id = "Window"
           /\ p[2].layer_id = "Background"
           /\ Call(Ctx, borrow, p[1]).response.hovered
           /\ ~Call(After(Ctx, Call(Ctx, borrow, p[1])), borrow, p[2]).response.hovered


(* ------------------------- properties of hover ------------------------- *)

\* C11, as the specification states it: whatever the sense, a Response
\* returned while a pointer button is down and the widget is not the
\* button-down owner has hovered = false
C11_NoHoverWhileDownElsewhere ==
    (Callable /\ depth > 0 /\ AnyDown(input)) =>
        \A a \in CallArgs(ClipRects, ItemSpacings, Layers, WidgetIds, {RectA, RectB},
                          Senses, BOOLEAN) :
            LET res == Call(Ctx, borrow, a)
            IN (res.panic = "none" /\ ~res.response.is_pointer_button_down_on) =>
                   ~res.response.hovered

\* C11: a Response of an enabled, focusable widget on a layer that allows
\* interaction, returned while a pointer button is down and the widget is not
\* the button-down owner, has hovered = false; a Response returned at line 194
\* (disabled, not focusable, or a layer without interaction) keeps the hover
\* computed from the pointer position, whatever the buttons
C11_NoHoverWhileDownElsewhereIfInteractive ==
    (Callable /\ depth > 0) =>
        \A a \in CallArgs(ClipRects, ItemSpacings, Layers, WidgetIds, {RectA, RectB},
                          Senses, BOOLEAN) :
            LET res == Call(Ctx, borrow, a)
                interested == a.enabled /\ a.sense.focusable /\ AllowInteraction(a.layer_id)
            IN res.panic = "none" =>
                   /\ (interested /\ AnyDown(input)
                       /\ ~res.response.is_pointer_button_down_on) => ~res.response.hovered
                   /\ ~interested =>
                          (res.response.hovered <=>
                              (a.enabled /\ rect_contains_pointer(memory, input, a.layer_id,
                                   RectIntersect(a.clip_rect,
                                       interact_rect(a.rect, a.item_spacing)))))

\* the button is down on "A", which holds the click claim; "B" lies under the
\* pointer on the topmost layer: as a click-sensitive widget it returns
\* hovered = false, as a hover-only widget hovered = true
C11_HoverOnlyWidgetStillHovers ==
    /\ depth > 0
    /\ Callable
    /\ AnyDown(input)
    /\ lastOp.op = "interact" /\ lastOp.id = "A"
    /\ memory.click_id = "A"
    /\ \E layer_id \in Layers :
           LET b == [clip_rect |-> ScreenRect, item_spacing |-> 80, layer_id |-> layer_id,
                     id |-> "B", rect |-> RectB, sense |-> SenseClick, enabled |-> TRUE]
               h == [b EXCEPT !.sense = SenseHover]
           IN /\ VisibleUnderPointer(memory, input, b)
              /\ ~Call(Ctx, borrow, b).response.hovered
              /\ Call(Ctx, borrow, h).response.hovered


(* ------------------- properties of Id registration --------------------- *)

\* an interact call has registered, and returned, an Id the frame had seen
SecondUse ==
    /\ lastOp'.op = "interact"
    /\ panic' = "none"
    /\ used_ids[lastOp'.id] # <<>>

\* the rectangle the Id had before the step, and the one the step gave it
PrevRect == used_ids[lastOp'.id][1]

NewRect == used_ids'[lastOp'.id][1]

\* the overlays of a second use apart from the first
OverlayPair(prev_rect, new_rect) ==
    <<ErrorShape(prev_rect.min, "First use of ID"),
      ErrorShape(new_rect.min, "Second use of ID")>>

\* C12, as the specification states it: a second use with the same rectangle
\* adds no overlay, a second use with a disjoint rectangle adds one overlay at
\* the first rectangle and one at the second
C12_DisjointUseGivesPair ==
    [][SecondUse =>
        /\ PrevRect = NewRect => graphics' = graphics
        /\ ~RectsOverlap(PrevRect, NewRect) =>
               graphics' = graphics \o OverlayPair(PrevRect, NewRect)]_vars

\* one of the two rectangles, grown by 0.1 on each side, contains the other
WithinSlack(a, b) ==
    \/ RectContainsRect(RectExpand(a, ReuseSlack), b)
    \/ RectContainsRect(RectExpand(b, ReuseSlack), a)

\* C12: a second use with the same rectangle adds no overlay, and neither does
\* one with a disjoint rectangle that lies inside the first grown by 0.1 (or
\* the other way round); any other second use with a disjoint rectangle adds
\* one overlay at the first rectangle and one at the second when the min
\* corners are 4 points or more apart, and one overlay only, at the second
\* rectangle, when they are nearer than 4 points
C12_DisjointUseGivesPairOrOne ==
    [][SecondUse =>
        /\ PrevRect = NewRect => graphics' = graphics
        /\ (~RectsOverlap(PrevRect, NewRect) /\ WithinSlack(PrevRect, NewRect)) =>
               graphics' = graphics
        /\ (~RectsOverlap(PrevRect, NewRect) /\ ~WithinSlack(PrevRect, NewRect)
            /\ ~DistanceLess(PrevRect.min, NewRect.min, DoubleUseDist)) =>
               graphics' = graphics \o OverlayPair(PrevRect, NewRect)
        /\ (~RectsOverlap(PrevRect, NewRect) /\ ~WithinSlack(PrevRect, NewRect)
            /\ DistanceLess(PrevRect.min, NewRect.min, DoubleUseDist)) =>
               graphics' = graphics \o <<ErrorShape(NewRect.min, "Double use of ID")>>]_vars

\* "A" was registered at RectA and then at RectAbove, next to it: the frame
\* holds the one overlay "Double use of ID"
C12_DoubleUseOverlay ==
    /\ depth > 0
    /\ panic = "none"
    /\ lastOp.op = "interact" /\ lastOp.id = "A"
    /\ used_ids["A"] = <<RectAbove>>
    /\ graphics = <<ErrorShape(RectAbove.min, "Double use of ID")>>

\* C13, as the specification states it: a second use with a rectangle that
\* overlaps the first adds no overlay
C13_OverlapIsReuse ==
    [][(SecondUse /\ RectsOverlap(PrevRect, NewRect)) => graphics' = graphics]_vars

\* C13: a second use adds no overlay exactly when one of the two rectangles,
\* grown by 0.1 on each side, contains the other; rectangles that overlap
\* without one containing the other are reported
C13_ContainmentIsReuse ==
    [][SecondUse =>
        (graphics' = graphics <=>
            \/ RectContainsRect(RectExpand(PrevRect, ReuseSlack), NewRect)
            \/ RectContainsRect(RectExpand(NewRect, ReuseSlack), PrevRect))]_vars

\* "A" was registered at RectA and then at RectB, which overlaps RectA: the
\* frame holds the overlays of a first and a second use
C13_OverlapReported ==
    /\ depth > 0
    /\ panic = "none"
    /\ lastOp.op = "interact" /\ lastOp.id = "A"
    /\ used_ids["A"] = <<RectB>>
    /\ RectsOverlap(RectA, RectB)
    /\ graphics = OverlayPair(RectA, RectB)

(* ----------------------- properties of the font cache ------------------ *)

\* the operations that read the font cache
FontReaders == {"fonts", "texture", "tessellate"}

\* a step that began a frame
BeganFrame == lastOp'.op = "run_begin" /\ panic' = "none" /\ depth' = depth + 1

\* a step that ended a frame
EndedFrame == lastOp'.op = "end_frame" /\ panic' = "none" /\ depth' = depth - 1

\* C14: the font cache is absent exactly until the first begin_frame: only a
\* begin_frame creates it, every begin_frame leaves one, and nothing (the reset
\* of Memory included) removes it; fonts(), texture() and tessellate() panic
\* while it is absent and, with the cell unborrowed, succeed once it exists
C14_FontsAbsentUntilFirstFrame ==
    /\ [](lastOp.op = "new" => ~fonts.present)
    /\ [][/\ BeganFrame => fonts'.present
          /\ ~BeganFrame => (fonts'.present <=> fonts.present)
          /\ fonts.present => fonts'.present
          /\ lastOp'.op \in FontReaders /\ lastOp' # lastOp =>
                /\ ~fonts.present => panic' # "none"
                /\ ~fonts.present /\ CanBorrowMut(borrow) => panic' = NoFontsPanic
                /\ fonts.present /\ CanBorrowMut(borrow) => panic' = "none"]_vars

\* Memory was reset in a frame and the cache is still there for texture()
C14_CacheSurvivesReset ==
    /\ lastOp.op = "memory_reset"
    /\ memory = DefaultMemory
    /\ fonts.present
    /\ panic = "none"

\* the cache has to be rebuilt for the frame whose pixels_per_point is ppp
NeedsRebuild(ppp) ==
    \/ ~fonts.present
    \/ memory.new_font_definitions # None
    \/ Abs(fonts.pixels_per_point - ppp) > PppEps

\* C15: a begin_frame replaces the font cache by a new one exactly when there
\* is no cache, or definitions are pending, or the frame's pixels_per_point is
\* more than 0.001 away from the cache's; the new cache has the pending
\* definitions, else those of the cache it replaces, else the defaults; the
\* pending definitions are gone after the begin_frame
C15_RebuildExactlyWhenNeeded ==
    [][BeganFrame =>
          LET ppp == input'.pixels_per_point
          IN /\ NeedsRebuild(ppp) <=> fonts'.generation # fonts.generation
             /\ ~NeedsRebuild(ppp) => fonts' = fonts
             /\ NeedsRebuild(ppp) =>
                   /\ fonts'.present
                   /\ fonts'.pixels_per_point = ppp
                   /\ fonts'.definitions =
                         IF memory.new_font_definitions # None
                         THEN memory.new_font_definitions
                         ELSE IF fonts.present THEN fonts.definitions ELSE "default"
             /\ memory'.new_font_definitions = None]_vars

\* a frame began at 1.0005 pixels per point and kept the cache built for 1.0
C15_CacheKeptWithinThreshold ==
    /\ lastOp.op = "run_begin"
    /\ panic = "none"
    /\ fonts.present
    /\ fonts.pixels_per_point = 10000
    /\ input.pixels_per_point = 10005

\* set_pixels_per_point was called with a value other than the current one
AskedPixelsPerPoint ==
    /\ lastOp'.op = "set_pixels_per_point"
    /\ panic' = "none"
    /\ asked'.ppp = "pending"

\* C16 as stated: the begin_frame that follows set_pixels_per_point(v), v not
\* the current pixels_per_point, replaces the font cache by a new object with
\* the same definitions, and the end_frame of that frame returns needs_repaint
C16_NewPixelsPerPointRebuilds ==
    /\ [][BeganFrame /\ asked.ppp = "pending" =>
             /\ fonts'.generation # fonts.generation
             /\ fonts.present => fonts'.definitions = fonts.definitions]_vars
    /\ [][EndedFrame /\ asked.ppp = "applied" => out'.needs_repaint]_vars

\* C16, amended: set_pixels_per_point(v), v not the current pixels_per_point,
\* sets the repaint counter to 2, and when the next frame begins at v (its raw
\* input carries no other pixels_per_point) the cache is replaced exactly when
\* update_fonts_mut finds a reason (v more than 0.001 from the cache's value,
\* no cache, or pending definitions), keeping the definitions unless new ones
\* are pending; the end_frame of that frame returns needs_repaint
C16_NewPixelsPerPointRebuildsIfApplied ==
    /\ [][AskedPixelsPerPoint => repaint_requests' = RepaintFrames]_vars
    /\ [][BeganFrame /\ asked.ppp = "pending"
             /\ input'.pixels_per_point = memory.new_pixels_per_point =>
             /\ fonts'.generation # fonts.generation
                   <=> NeedsRebuild(memory.new_pixels_per_point)
             /\ fonts'.pixels_per_point = memory.new_pixels_per_point
                   \/ ~NeedsRebuild(memory.new_pixels_per_point)
             /\ fonts.present /\ memory.new_font_definitions = None
                   => fonts'.definitions = fonts.definitions]_vars
    /\ [][EndedFrame /\ asked.ppp = "applied" => out'.needs_repaint]_vars

\* the frame after set_pixels_per_point(2.0) began at 2.0 with a second cache
C16_FrameBeganAtNewPixelsPerPoint ==
    /\ lastOp.op = "run_begin"
    /\ panic = "none"
    /\ asked.ppp = "applied"
    /\ input.pixels_per_point = 20000
    /\ fonts.pixels_per_point = 20000
    /\ fonts.generation = 2
    /\ repaint_requests > 0

\* C17: after set_fonts calls (the last of them with definitions d, and no
\* reset of Memory since), the begin_frame that follows leaves a font cache
\* whose definitions are d
C17_LastSetFontsWins ==
    [][BeganFrame /\ asked.fonts # None => fonts'.definitions = asked.fonts]_vars

(* -------------------------- properties of clones ----------------------- *)

\* the handles that exist
Live == {h \in Handles : handles[h] # None}

\* C18: the handles that exist refer to one Context in every reachable state:
\* whatever request_repaint, set_pixels_per_point, the reset of Memory or a run
\* and its input changed is the same seen through each of them
C18_ClonesShareOneContext ==
    \A h1 \in Live, h2 \in Live :
        /\ handles[h1] = handles[h2]
        /\ Observe(h1) = Observe(h2)

\* a frame has begun at 2.0 pixels per point while a clone exists, and the
\* clone gives access to that input
C18_CloneSeesNewInput ==
    /\ Live = Handles
    /\ lastOp.op = "run_begin"
    /\ panic = "none"
    /\ Observe("clone").input.pixels_per_point = 20000
    /\ Observe("ctx").input.pixels_per_point = 20000

\* C19: a run that begins while a clone exists leaves the two handles with
\* different Contexts: one handle refers to the old Context, which is as it
\* was before the run and has not received the run's input
C19_RunStartsNewGeneration ==
    [][BeganFrame /\ Live = Handles =>
          \E c \in Handles :
              /\ handles'[c] = "old"
              /\ handles'[c] # handles'[CHOOSE h \in Handles : h # c]
              /\ old_ctx' = Ctx]_vars

(* -------------------------- properties of frames ----------------------- *)

\* C20: a frame begins only when no frame is open, and the end of a frame
\* leaves no frame open: frames do not nest
C20_FramesNeverNest ==
    /\ [][BeganFrame => depth = 0]_vars
    /\ [][EndedFrame => depth' = 0]_vars

(* ------------------------- properties of animation --------------------- *)

\* C21: animate_bool that returns a value strictly between 0 and 1 leaves the
\* repaint counter at 2, and the end_frame that follows the call returns
\* needs_repaint; animate_bool that returns 0 or 1 leaves the counter alone
C21_AnimationInFlightRepaints ==
    /\ [][lastOp'.op = "animate_bool" /\ panic' = "none" =>
             IF 0 < lastOp'.ret /\ lastOp'.ret < 10
             THEN repaint_requests' = RepaintFrames
             ELSE repaint_requests' = repaint_requests]_vars
    /\ [](lastOp.op = "end_frame" /\ trig.calls >= 1 /\ trig.since = 1
             => out.needs_repaint)

\* a frame in which animate_bool returned 0.5 has ended and asks for a repaint
C21_AnimatedFrameEnded ==
    /\ lastOp.op = "end_frame"
    /\ panic = "none"
    /\ trig.calls >= 1
    /\ trig.since = 1
    /\ out.needs_repaint
    /\ repaint_requests = 1

(* ---------------------- properties of pointer queries ------------------ *)

\* C22 as stated: once a button went down with no widget or window claiming
\* the press, wants_pointer_input is false while the pointer is over an egui
\* area, until a button is released
C22_OutsideDragNeverWanted ==
    (outside_press \in {"yes", "again"} /\ is_pointer_over_area(memory, input))
        => ~wants_pointer_input(memory, input)

\* C22, amended: the same as long as no further button is pressed; and while
\* a button is down, wants_pointer_input is true exactly when a click or drag
\* is claimed
C22_OutsideDragNotWantedUntilNextPress ==
    /\ outside_press = "yes" => ~wants_pointer_input(memory, input)
    /\ AnyDown(input) => (wants_pointer_input(memory, input) <=> is_using_pointer(memory))

\* the button went down outside the window, unclaimed, and the pointer is now
\* over the window with the button still down
C22_DraggedOverWindow ==
    /\ outside_press = "yes"
    /\ panic = "none"
    /\ AnyDown(input)
    /\ is_pointer_over_area(memory, input)
    /\ ~wants_pointer_input(memory, input)

(* --------------------- properties of the repaint counter --------------- *)

\* C23 as stated: the repaint counter is within 0..2, and an end_frame takes
\* one off the counter it finds when that is positive, returning
\* needs_repaint, and leaves a counter of 0 at 0
C23_EndFrameCountsDown ==
    /\ [](repaint_requests \in 0..RepaintFrames)
    /\ [][EndedFrame =>
             IF repaint_requests > 0
             THEN repaint_requests' = repaint_requests - 1 /\ out'.needs_repaint
             ELSE repaint_requests' = 0]_vars

\* C23, amended: the repaint counter is within 0..2; an end_frame whose input
\* wants a repaint first sets the counter to 2; it then takes one off a
\* positive counter and returns needs_repaint, and leaves a counter of 0 at 0
\* and returns no needs_repaint
C23_EndFrameCountsDownAfterInput ==
    /\ [](repaint_requests \in 0..RepaintFrames)
    /\ [][EndedFrame =>
             LET r == IF WantsRepaint(input) THEN RepaintFrames ELSE repaint_requests
             IN IF r > 0
                THEN repaint_requests' = r - 1 /\ out'.needs_repaint
                ELSE repaint_requests' = 0 /\ ~out'.needs_repaint]_vars

\* a frame whose input wanted a repaint has ended with the counter at 1, and
\* nothing called request_repaint
C23_InputRaisedCounter ==
    /\ lastOp.op = "end_frame"
    /\ panic = "none"
    /\ trig.calls = 0
    /\ trig.since = 1
    /\ WantsRepaint(input)
    /\ repaint_requests = 1
    /\ out.needs_repaint


(* ------------------- interact: the return of line 194 ------------------ *)

\* calls of interact for the ids "A" and "B", every sense and every layer
FocusCalls ==
    CallArgs({ScreenRect}, {80}, Layers, WidgetIds, {RectA}, Senses, BOOLEAN)

\* the test of line 191
ReturnsEarly(a) == ~a.enabled \/ ~a.sense.focusable \/ ~AllowInteraction(a.layer_id)

\* the Response carries no interaction
NoInteraction(resp) ==
    /\ \A b \in Buttons : ~resp.clicked[b] /\ ~resp.double_clicked[b]
    /\ ~resp.dragged
    /\ ~resp.drag_released
    /\ ~resp.is_pointer_button_down_on
    /\ resp.interact_pointer_pos = NoPos

\* C24: a call of interact for a widget that is disabled, or not focusable, or
\* on a layer that forbids interaction leaves the id without focus, returns a
\* Response without clicks, double-clicks, drag, drag release, button-down
\* flag and interaction position, not hovered when the widget is disabled, and
\* changes nothing else of the Memory nor the used-id registry, also when the
\* id holds the click or the drag claim
C24_EarlyReturnTouchesFocusOnly ==
    (Callable /\ depth > 0) =>
        \A a \in FocusCalls :
            ReturnsEarly(a) =>
                LET res == Call(Ctx, borrow, a)
                IN /\ res.panic = "none"
                   /\ res.memory.focus # a.id
                   /\ res.memory = [memory EXCEPT !.focus = res.memory.focus]
                   /\ (memory.focus # a.id => res.memory.focus = memory.focus)
                   /\ (~a.enabled => ~res.response.hovered)
                   /\ NoInteraction(res.response)
                   /\ res.used_ids = used_ids
                   /\ res.graphics = graphics

\* "A" holds the focus and the click claim, the button is released with a
\* click over it, and a disabled call for "A" gives up the focus
C24_DisabledHolderOfFocusAndClaim ==
    /\ Callable /\ depth > 0
    /\ memory.focus = "A"
    /\ memory.click_id = "A"
    /\ AnyClick(input)
    /\ input.interact_pos = PosA
    /\ LET res == Call(Ctx, borrow,
                       [clip_rect |-> ScreenRect, item_spacing |-> 80,
                        layer_id |-> "Background", id |-> "A", rect |-> RectA,
                        sense |-> SenseClick, enabled |-> FALSE])
       IN res.early /\ res.memory.focus = None /\ res.memory.click_id = "A"


(* ---------------------- end_frame: what it returns --------------------- *)

\* every end_frame returns the Output and the shapes accumulated so far and
\* leaves Output::default and empty layers in the Context
EndFrameTakesAll ==
    [][EndedFrame =>
          /\ out'.copied_text = output.copied_text
          /\ out'.shapes = Len(graphics)
          /\ output' = DefaultOutput
          /\ graphics' = <<>>]_vars

\* C25: end_frame returns the Output and the shapes accumulated and leaves the
\* default Output and empty layers, and what a frame wrote or painted is
\* returned by that frame's run alone: a frame in which nothing is painted or
\* put out returns no shapes and, apart from needs_repaint, a default Output
C25_FrameReturnsOnlyItsOwn ==
    [][EndedFrame =>
          /\ out'.copied_text = output.copied_text
          /\ out'.shapes = Len(graphics)
          /\ output' = DefaultOutput
          /\ graphics' = <<>>
          /\ (lastOp.op = "run_begin" =>
                 /\ out'.shapes = 0
                 /\ out'.copied_text = DefaultOutput.copied_text)]_vars


(* ------------------- interact: the pointer event loop ------------------ *)

\* calls of interact for the widgets "A" and "B" as laid out on the background
ButtonCalls ==
    { a \in CallArgs({ScreenRect}, {80}, {"Background"}, WidgetIds, {RectA, RectB},
                     Senses, {TRUE}) :
        a.rect = IF a.id = "A" THEN RectA ELSE RectB }

\* the frame's button events: no Pressed follows a Released, and there is a Released
EndsReleased(inp) ==
    LET evs == ButtonEvents(inp)
    IN /\ \E i \in 1..Len(evs) : evs[i].kind = "Released"
       /\ \A i, j \in 1..Len(evs) :
             (i < j /\ evs[i].kind = "Released") => evs[j].kind = "Released"

\* the id holds the drag claim when the call is made, or the call takes it on a
\* Pressed event of the frame
DragsInFrame(mem, res, a) ==
    mem.drag_id = a.id \/ (res.memory.drag_id = a.id /\ ~res.early)

\* C26: a drag-sensitive widget whose id holds the drag claim when interact is
\* called, or takes it on a Pressed event of the frame, and whose frame then
\* has one or more Released events gets drag_released = true and
\* dragged = false
C26_ReleasedEndsDrag ==
    (Callable /\ depth > 0) =>
        \A a \in ButtonCalls :
            LET res == Call(Ctx, borrow, a)
            IN (a.sense.drag /\ DragsInFrame(memory, res, a) /\ EndsReleased(input)) =>
                   (res.response.drag_released /\ ~res.response.dragged)

\* the same for frames with exactly one Released event
C26_OneReleaseEndsDrag ==
    (Callable /\ depth > 0) =>
        \A a \in ButtonCalls :
            LET res == Call(Ctx, borrow, a)
                released == SelectSeq(ButtonEvents(input), LAMBDA e : e.kind = "Released")
            IN (a.sense.drag /\ DragsInFrame(memory, res, a) /\ EndsReleased(input)
                  /\ Len(released) = 1) =>
                   (res.response.drag_released /\ ~res.response.dragged)


(* ---------------------- interact: clicks by the keys ------------------- *)

\* C27: an enabled click-sensitive widget on a layer that allows interaction
\* whose id holds the focus in a frame with Space or Enter pressed gets
\* clicked[Primary], hovered or not, with pointer events or without; in a frame
\* without a pointer click no other widget gets any click
C27_KeysClickFocusedWidget ==
    (Callable /\ depth > 0) =>
        \A a \in FocusCalls :
            ~ReturnsEarly(a) =>
                LET res == Call(Ctx, borrow, a)
                    by_key == /\ a.sense.click
                              /\ memory.focus = a.id
                              /\ ("Space" \in input.keys \/ "Enter" \in input.keys)
                IN /\ by_key => res.response.clicked["Primary"]
                   /\ ~AnyClick(input) =>
                         /\ res.response.clicked["Primary"] <=> by_key
                         /\ ~res.response.clicked["Secondary"]
                         /\ \A b \in Buttons : ~res.response.double_clicked[b]

\* "A" holds the focus, Enter is pressed in a frame without pointer events and
\* with the pointer away from "A": a click-sensitive "A" is clicked, not hovered
C27_FocusedWidgetClickedByEnter ==
    /\ Callable /\ depth > 0
    /\ memory.focus = "A"
    /\ input.keys = {"Enter"}
    /\ input.pointer_events = <<>>
    /\ input.interact_pos = PosC
    /\ LET res == Call(Ctx, borrow,
                       [clip_rect |-> ScreenRect, item_spacing |-> 80,
                        layer_id |-> "Background", id |-> "A", rect |-> RectA,
                        sense |-> SenseClick, enabled |-> TRUE])
       IN /\ ~res.early
          /\ ~res.response.hovered
          /\ res.response.clicked["Primary"]


(* --------------------- the registry of a frame's Ids ------------------- *)

\* C28: every begin_frame empties the registry of used Ids, and an interact
\* call that registers an Id for the first time since then paints no overlay,
\* whatever rectangle the Id had in the frame before
C28_RegistryIsPerFrame ==
    /\ [][BeganFrame => \A i \in WidgetIds : used_ids'[i] = <<>>]_vars
    /\ [][(lastOp'.op = "interact" /\ panic' = "none"
              /\ used_ids[lastOp'.id] = <<>>) => graphics' = graphics]_vars

\* frame k has registered "A" with RectA and has ended; once frame k+1 has
\* begun, a call for "A" with the disjoint RectC paints nothing, while the
\* same call on the registry of frame k would paint the overlay
C28_SameIdInNextFrame ==
    /\ Callable /\ depth = 0
    /\ lastOp.op = "end_frame"
    /\ used_ids["A"] = <<RectA>>
    /\ graphics = <<>>
    /\ \E raw \in RestingRawInputs :
          LET a == [clip_rect |-> ScreenRect, item_spacing |-> 80,
                    layer_id |-> "Background", id |-> "A", rect |-> RectC,
                    sense |-> SenseClick, enabled |-> TRUE]
              next == begin_frame_mut(Ctx, raw)
          IN /\ next.used_ids["A"] = <<>>
             /\ Call(next, borrow, a).graphics = <<>>
             /\ Call(next, borrow, a).used_ids["A"] = <<RectC>>
             /\ Call(Ctx, borrow, a).graphics # <<>>


\* the Response reports a click or a double click of some button
ReportsClick(resp) == \E b \in Buttons : resp.clicked[b] \/ resp.double_clicked[b]

\* C29: a Response reports a click or a double click only for a widget whose
\* sense includes click
C29_ClicksOnlyForClickSense ==
    (Callable /\ depth > 0) =>
        \A a \in ButtonCalls :
            ~a.sense.click => ~ReportsClick(Call(Ctx, borrow, a).response)

\* C30: in a frame whose button events are one Pressed and then one Released
\* that carries a click, with no button down before or after, the interact
\* calls of two widgets of different ids that both hold the pointer do not both
\* report a click
C30_OneWidgetPerClick ==
    (Callable /\ depth > 0 /\ lastOp.op = "run_begin"
       /\ PressThenClick(input) /\ input.down = {}) =>
        \A a \in ButtonCalls, b \in ButtonCalls :
            (a.id # b.id /\ SenseInteractive(a.sense) /\ SenseInteractive(b.sense)) =>
                LET r1 == Call(Ctx, borrow, a)
                    r2 == Call(After(Ctx, r1), borrow, b)
                IN ~(ReportsClick(r1.response) /\ ReportsClick(r2.response))

\* the same for two widgets that are click-sensitive and not drag-sensitive
C30_OneClickOnlyWidgetPerClick ==
    (Callable /\ depth > 0 /\ lastOp.op = "run_begin"
       /\ PressThenClick(input) /\ input.down = {}) =>
        \A a \in ButtonCalls, b \in ButtonCalls :
            (a.id # b.id /\ a.sense = SenseClick /\ b.sense = SenseClick) =>
                LET r1 == Call(Ctx, borrow, a)
                    r2 == Call(After(Ctx, r1), borrow, b)
                IN ~(ReportsClick(r1.response) /\ ReportsClick(r2.response))

====
